---- MODULE Spec2Model ----
(***************************************************************************)
(* CSVtoPPT backend: plan limits (module J), the /convert handler, alone   *)
(* and with two requests of one user in flight, the pipeline orchestrator  *)
(* with its slide cap and deck assembly, the text composition of module H  *)
(* with its fallback, the column types and chart plan of module B, and     *)
(* direct calls of build_presentation (module E).                          *)
(*                                                                         *)
(* Python's None is the empty sequence and a present value x is <<x>>.     *)
(* Text whose characters matter (the plan name) is a sequence of           *)
(* one-character strings, so strip() and lower() are computed.             *)
(***************************************************************************)
EXTENDS Integers, Sequences, FiniteSets, TLC

VARIABLES now, db, req, committed, jcall, run, hcall, bcall, pool, ecall

vars == <<now, db, req, committed, jcall, run, hcall, bcall, pool, ecall>>

(***************************** bounds **************************************)
NumYears == 2
MaxConversions == 12
MaxPlots == 6
MaxCap == 3
MaxFailures == 1

(************************ module J constants *******************************)
FREE_MONTHLY_LIMIT == 10
FREE_MAX_SLIDES == 8
FREE_MAX_ROWS == 5000
FREE_AI_STYLE == "light"
FREE_TEMPLATE == "default"
PRO_TEMPLATE == "pro_template"

ERR_MONTHLY_LIMIT == "Vous avez atteint la limite de 10 conversions mensuelles du plan Free."
ERR_ROW_LIMIT == "Votre fichier depasse la limite du plan Free."
ERR_SLIDE_LIMIT == "Le plan Free est limite a 8 slides par presentation."

(************************* optional values *********************************)
None == <<>>
Some(x) == <<x>>
IsNone(o) == o = <<>>
Val(o) == o[1]

(************************* dates and clock *********************************)
Months == {1, 12}
Days == {1, 28}
Dates == [year : 1..NumYears, month : Months, day : Days]
DateBefore(a, b) ==
    \/ a.year < b.year
    \/ a.year = b.year /\ a.month < b.month
    \/ a.year = b.year /\ a.month = b.month /\ a.day < b.day
SameMonth(a, b) == a.year = b.year /\ a.month = b.month

(************************* text of a plan name *****************************)
StrFree == <<"f", "r", "e", "e">>
StrPro == <<"p", "r", "o">>
Whitespace == {" "}
LowerChar(c) ==
    CASE c = "P" -> "p"
      [] c = "R" -> "r"
      [] c = "O" -> "o"
      [] c = "F" -> "f"
      [] c = "E" -> "e"
      [] OTHER -> c
Lower(s) == [i \in 1..Len(s) |-> LowerChar(s[i])]
RECURSIVE LStrip(_)
LStrip(s) == IF s # <<>> /\ Head(s) \in Whitespace THEN LStrip(Tail(s)) ELSE s
RECURSIVE RStrip(_)
RStrip(s) == IF s # <<>> /\ s[Len(s)] \in Whitespace THEN RStrip(SubSeq(s, 1, Len(s) - 1)) ELSE s
Strip(s) == RStrip(LStrip(s))

(* plan column values a user record can hold *)
PlanValues ==
    { None, Some(<<>>), Some(StrFree), Some(StrPro),
      Some(<<"P", "r", "o">>), Some(<<" ", "P", "R", "O", " ">>),
      Some(<<"p", "r", "o", "x">>), Some(<<"F", "r", "e", "e">>) }

(*************************** module J **************************************)
(* mutant: the plan name is lowercased but not stripped *)
get_user_plan_no_strip(user) ==
    LET plan == IF IsNone(user.plan) \/ Val(user.plan) = <<>> THEN StrFree ELSE Val(user.plan)
    IN Lower(plan)

get_user_plan(user) ==
    LET plan == IF IsNone(user.plan) \/ Val(user.plan) = <<>> THEN StrFree ELSE Val(user.plan)
    IN Lower(Strip(plan))

(* mutant: the pro plan keeps the free slide cap *)
apply_plan_parameters_pro_capped(user) ==
    IF get_user_plan(user) = StrPro
    THEN [max_slides |-> Some(FREE_MAX_SLIDES), ai_style |-> "executive", watermark |-> FALSE, template |-> PRO_TEMPLATE]
    ELSE [max_slides |-> Some(FREE_MAX_SLIDES), ai_style |-> FREE_AI_STYLE, watermark |-> TRUE, template |-> FREE_TEMPLATE]

apply_plan_parameters(user) ==
    IF get_user_plan(user) = StrPro
    THEN [max_slides |-> None, ai_style |-> "executive", watermark |-> FALSE, template |-> PRO_TEMPLATE]
    ELSE [max_slides |-> Some(FREE_MAX_SLIDES), ai_style |-> FREE_AI_STYLE, watermark |-> TRUE, template |-> FREE_TEMPLATE]

(* mutant: the reset compares the month and forgets the year *)
_reset_monthly_quota_month_only(user, clock) ==
    LET last_reset == user.last_reset_date
        previous_value == user.conversions_this_month
    IN IF IsNone(last_reset) \/ Val(last_reset).month # clock.month
       THEN [user EXCEPT !.conversions_last_month = previous_value,
                         !.conversions_this_month = 0,
                         !.last_reset_date = Some(clock)]
       ELSE user

_reset_monthly_quota_if_needed(user, clock) ==
    LET last_reset == user.last_reset_date
        previous_value == user.conversions_this_month
    IN IF IsNone(last_reset) \/ Val(last_reset).year # clock.year \/ Val(last_reset).month # clock.month
       THEN [user EXCEPT !.conversions_last_month = previous_value,
                         !.conversions_this_month = 0,
                         !.last_reset_date = Some(clock)]
       ELSE user

_extract_row_count(dataframe) == IF IsNone(dataframe) THEN 0 ELSE Val(dataframe)

(* mutant: every allowed call stamps last_reset_date *)
_allow_and_increment_restamp(user, params, clock) ==
    [user |-> [user EXCEPT !.conversions_this_month = user.conversions_this_month + 1,
                           !.last_reset_date = Some(clock)],
     response |-> [allowed |-> TRUE, error |-> None, params |-> Some(params)]]

_allow_and_increment(user, params, clock) ==
    LET current_conversions == user.conversions_this_month
        bumped == [user EXCEPT !.conversions_this_month = current_conversions + 1]
    IN [user |-> IF IsNone(bumped.last_reset_date)
                 THEN [bumped EXCEPT !.last_reset_date = Some(clock)]
                 ELSE bumped,
        response |-> [allowed |-> TRUE, error |-> None, params |-> Some(params)]]

(* mutant: a refused call is counted like an allowed one *)
Denied_counted(user, message) ==
    [user |-> [user EXCEPT !.conversions_this_month = user.conversions_this_month + 1],
     response |-> [allowed |-> FALSE, error |-> Some(message), params |-> None]]

Denied(user, message) ==
    [user |-> user, response |-> [allowed |-> FALSE, error |-> Some(message), params |-> None]]

(* mutant: the quota test lets the counter reach the limit plus one *)
over_monthly_limit_gt(user) == user.conversions_this_month > FREE_MONTHLY_LIMIT

(* line 79 *)
over_monthly_limit(user) == user.conversions_this_month >= FREE_MONTHLY_LIMIT

(* mutant: a dataset of exactly the row limit is refused *)
over_row_limit_ge(dataframe) == _extract_row_count(dataframe) >= FREE_MAX_ROWS

(* lines 86-87 *)
over_row_limit(dataframe) == _extract_row_count(dataframe) > FREE_MAX_ROWS

(* line 94: None and 0 are falsy *)
over_slide_limit(requested_slide_count) ==
    /\ ~IsNone(requested_slide_count)
    /\ Val(requested_slide_count) # 0
    /\ Val(requested_slide_count) > FREE_MAX_SLIDES

(* check_usage_limits after its reset step: the plan branch and the free checks *)
limit_checks(user, dataframe, requested_slide_count, clock) ==
    LET plan == get_user_plan(user)
        params == apply_plan_parameters(user)
    IN IF plan = StrPro THEN _allow_and_increment(user, params, clock)
       ELSE IF over_monthly_limit(user) THEN Denied(user, ERR_MONTHLY_LIMIT)
       ELSE IF over_row_limit(dataframe) THEN Denied(user, ERR_ROW_LIMIT)
       ELSE IF over_slide_limit(requested_slide_count) THEN Denied(user, ERR_SLIDE_LIMIT)
       ELSE _allow_and_increment(user, params, clock)

check_usage_limits(user, dataframe, requested_slide_count, clock) ==
    limit_checks(_reset_monthly_quota_if_needed(user, clock), dataframe, requested_slide_count, clock)

(************************ direct calls of module J *************************)
RowCounts == {10, 100, FREE_MAX_ROWS, FREE_MAX_ROWS + 1}
UploadRowCounts == {100, FREE_MAX_ROWS + 1}
SlideCounts == {None, Some(0), Some(4), Some(FREE_MAX_SLIDES), Some(FREE_MAX_SLIDES + 1)}
ConversionCounts == {0, 1, FREE_MONTHLY_LIMIT - 1, FREE_MONTHLY_LIMIT, MaxConversions - 1}
LastMonthCounts == {0, 3}

Users ==
    [plan : PlanValues,
     conversions_this_month : ConversionCounts,
     conversions_last_month : LastMonthCounts,
     last_reset_date : {None} \cup {Some(d) : d \in Dates}]

NoUser == [plan |-> None, conversions_this_month |-> 0, conversions_last_month |-> 0, last_reset_date |-> None]
NoResponse == [allowed |-> FALSE, error |-> None, params |-> None]

JIdle ==
    [pc |-> "none", user |-> NoUser, before |-> NoUser, after_reset |-> NoUser,
     dataframe |-> None, requested_slide_count |-> None, response |-> NoResponse]

(* a caller hands a user object, a dataframe and a slide count to check_usage_limits *)
JInit ==
    /\ now \in Dates
    /\ \E u \in Users, rows \in RowCounts \cup {-1}, slides \in SlideCounts :
          jcall = [pc |-> "called", user |-> u, before |-> u, after_reset |-> NoUser,
                   dataframe |-> IF rows = -1 THEN None ELSE Some(rows),
                   requested_slide_count |-> slides, response |-> NoResponse]

(* check_usage_limits, line 72: the reset step *)
JReset ==
    /\ jcall.pc = "called"
    /\ LET u == _reset_monthly_quota_if_needed(jcall.user, now)
       IN jcall' = [jcall EXCEPT !.pc = "reset", !.user = u, !.after_reset = u]
    /\ UNCHANGED <<now, db, req, committed, run, hcall, bcall, pool, ecall>>

(* check_usage_limits, lines 74-101: plan branch, limit checks, increment *)
JLimitChecks ==
    /\ jcall.pc = "reset"
    /\ LET r == limit_checks(jcall.user, jcall.dataframe, jcall.requested_slide_count, now)
       IN jcall' = [jcall EXCEPT !.pc = "returned", !.user = r.user, !.response = r.response]
    /\ UNCHANGED <<now, db, req, committed, run, hcall, bcall, pool, ecall>>

(*************************** /convert handler ******************************)
_snapshot_usage_state(user) ==
    [conversions_this_month |-> user.conversions_this_month,
     conversions_last_month |-> user.conversions_last_month,
     last_reset_date |-> user.last_reset_date]

(* mutant: only the counter is rolled back *)
_restore_usage_state_counter_only(user, snapshot) ==
    [user EXCEPT !.conversions_this_month = snapshot.conversions_this_month]

_restore_usage_state(user, snapshot) ==
    [user EXCEPT !.conversions_this_month = snapshot.conversions_this_month,
                 !.conversions_last_month = snapshot.conversions_last_month,
                 !.last_reset_date = snapshot.last_reset_date]

NoSnapshot == _snapshot_usage_state(NoUser)

ReqIdle ==
    [pc |-> "idle", current_user |-> NoUser, usage_snapshot |-> NoSnapshot,
     dataframe |-> None, enforcement |-> NoResponse, reserved |-> FALSE,
     ran |-> FALSE, straddles |-> FALSE, status |-> 0]

(* session.rollback() writes nothing to the row. Attributes the ORM tracks are
   expired and read back from the row; attributes it does not track (auth/models.py
   declares none of the usage columns) keep what was assigned to them *)
session_rollback(user, expired) == IF expired THEN db ELSE user

(* the except branches of convert_dataset, lines 176-201 *)
handle_error(r, code, expired) ==
    [r EXCEPT !.pc = "failed",
              !.current_user = _restore_usage_state(session_rollback(r.current_user, expired),
                                                    r.usage_snapshot),
              !.status = code]

(* session.add(current_user); session.commit(), lines 172-173 *)
session_commit(user) == user

(* lines 126-133: a request arrives; get_current_user loads the row, filename
   checks reject before anything is touched, then the snapshot is taken *)
convert_begin ==
    /\ req.pc \in {"idle", "done", "failed", "rejected"}
    /\ db.conversions_this_month < MaxConversions
    /\ \E filename_ok \in BOOLEAN :
          req' = IF filename_ok
                 THEN [ReqIdle EXCEPT !.pc = "uploading", !.current_user = db,
                                      !.usage_snapshot = _snapshot_usage_state(db)]
                 ELSE [ReqIdle EXCEPT !.pc = "rejected", !.current_user = db, !.status = 400]
    /\ UNCHANGED <<now, db, committed, jcall, run, hcall, bcall, pool, ecall>>

(* lines 136-143: save and size-check the upload, parse it *)
LoadOutcomes == {"ok", "ValueError", "no_dataframe", "Exception"}
convert_load ==
    /\ req.pc = "uploading"
    /\ \E outcome \in LoadOutcomes, rows \in UploadRowCounts, expired \in BOOLEAN :
          req' = CASE outcome = "ok" -> [req EXCEPT !.pc = "loaded", !.dataframe = Some(rows)]
                   [] outcome = "ValueError" -> handle_error(req, 400, expired)
                   [] outcome = "no_dataframe" -> handle_error(req, 400, expired)
                   [] OTHER -> handle_error(req, 500, expired)
    /\ UNCHANGED <<now, db, committed, jcall, run, hcall, bcall, pool, ecall>>

(* lines 145-147: check_usage_limits and the 403 on denial *)
convert_check ==
    /\ req.pc = "loaded"
    /\ LET r == check_usage_limits(req.current_user, req.dataframe, None, now)
           checked == [req EXCEPT !.current_user = r.user, !.enforcement = r.response, !.reserved = TRUE]
       IN \E expired \in BOOLEAN :
             req' = IF r.response.allowed
                    THEN [checked EXCEPT !.pc = "allowed"]
                    ELSE handle_error(checked, 403, expired)
    /\ UNCHANGED <<now, db, committed, jcall, run, hcall, bcall, pool, ecall>>

(* lines 149-170: pipeline_run returns a result or raises PipelineError; building
   the response may raise anything else *)
PipelineOutcomes == {"returned", "PipelineError", "Exception"}
convert_pipeline ==
    /\ req.pc = "allowed"
    /\ \E outcome \in PipelineOutcomes, expired \in BOOLEAN :
          req' = CASE outcome = "returned" -> [req EXCEPT !.pc = "ran", !.ran = TRUE]
                   [] outcome = "PipelineError" -> handle_error(req, 400, expired)
                   [] OTHER -> handle_error([req EXCEPT !.ran = TRUE], 500, expired)
    /\ UNCHANGED <<now, db, committed, jcall, run, hcall, bcall, pool, ecall>>

(* lines 172-175: commit the user row and return the file *)
convert_commit ==
    /\ req.pc = "ran"
    /\ \E commit_ok \in BOOLEAN, expired \in BOOLEAN :
          IF commit_ok
          THEN /\ db' = session_commit(req.current_user)
               /\ req' = [req EXCEPT !.pc = "done", !.status = 200]
               /\ committed' = IF req.straddles THEN committed ELSE committed + 1
          ELSE /\ req' = handle_error(req, 500, expired)
               /\ UNCHANGED <<db, committed>>
    /\ UNCHANGED <<now, jcall, run, hcall, bcall, pool, ecall>>

InFlight == {"uploading", "loaded", "allowed", "ran"}

(* the wall clock moves to a later date; committed counts the conversions
   committed by requests that ran entirely within the current calendar month *)
Tick ==
    /\ \E d \in Dates :
          /\ DateBefore(now, d)
          /\ now' = d
          /\ committed' = IF SameMonth(now, d) THEN committed ELSE 0
          /\ req' = IF ~SameMonth(now, d) /\ req.pc \in InFlight
                    THEN [req EXCEPT !.straddles = TRUE] ELSE req
    /\ UNCHANGED <<db, jcall, run, hcall, bcall, pool, ecall>>

(***************************** pipeline_run ********************************)
Min(a, b) == IF a <= b THEN a ELSE b
Max(a, b) == IF a >= b THEN a ELSE b

(* one entry of the warnings list: a formatted string or, for render errors, the
   error dict itself *)
Warning(form, kind, column, graph_type, count, limit) ==
    [form |-> form, kind |-> kind, column |-> column, graph_type |-> graph_type,
     count |-> count, limit |-> limit]
StrWarning(kind) == Warning("str", kind, 0, "", 0, 0)

(* the i-th planned chart: categorical columns, each with its two chart kinds *)
PlannedChart(i) ==
    [column |-> (i + 1) \div 2,
     graph_type |-> IF i % 2 = 1 THEN "barchart" ELSE "top_categories"]

RECURSIVE SeqMap(_, _, _)
(* <<f[lo], ..., f[hi]>> filtered through keep *)
SeqMap(f, keep, i) ==
    IF i > Len(f) THEN <<>>
    ELSE (IF keep[i] THEN <<f[i]>> ELSE <<>>) \o SeqMap(f, keep, i + 1)

RenderOutcomes == {"ok", "missing", "error"}
BuildOutcomes == {"ok", "raise_before_add", "raise_after_add"}
Failures(outcomes) == Cardinality({i \in DOMAIN outcomes : outcomes[i] # "ok"})
(* the outcome vectors of n calls in which at most k calls do not end "ok" *)
OutcomeVectors(n, all, k) ==
    UNION { { [i \in 1..n |-> IF i \in F THEN g[i] ELSE "ok"] : g \in [F -> all \ {"ok"}] } :
            F \in {G \in SUBSET (1..n) : Cardinality(G) <= k} }

(* the planned relation heatmaps of analysis["relations"]: none, one correlation
   or one categorical pair; the j-th pairs two charted columns and is named
   "a+b" by _handle_relations *)
RelationKinds == {"correlation_heatmap", "categorical_heatmap"}
RelationColumn(j) == MaxPlots + j
RelationPlans == {<<>>} \cup {<<kind>> : kind \in RelationKinds}

(* what one pass of a loop of _handle_relations can do: draw the heatmap, draw
   it but leave no file, raise inside the try, skip an empty crosstab without a
   trace (line 212, categorical pairs only), or raise while the matrix is
   computed, which is outside the try (lines 185 and 211) *)
RelationOutcomes == {"ok", "missing", "error", "skipped", "raise"}
RelationVectors(relations, k) ==
    {o \in OutcomeVectors(Len(relations), RelationOutcomes, k) :
        \A j \in 1..Len(relations) :
           o[j] = "skipped" => relations[j] = "categorical_heatmap"}

(* _handle_relations, lines 177-225 *)
_handle_relations(relations, outcomes) ==
    LET m == Len(relations)
        art == [j \in 1..m |-> [column |-> RelationColumn(j), graph_type |-> relations[j],
                                file_exists |-> outcomes[j] = "ok"]]
        err == [j \in 1..m |-> Warning("dict", "render_error", RelationColumn(j),
                                       relations[j], 0, 0)]
    IN [plots |-> SeqMap(art, [j \in 1..m |-> outcomes[j] \in {"ok", "missing"}], 1),
        errors |-> SeqMap(err, [j \in 1..m |-> outcomes[j] = "error"], 1),
        raised |-> \E j \in 1..m : outcomes[j] = "raise"]

(* generate_plots, lines 287-314: one artifact or one error dict per planned
   (column, chart kind), then the relation heatmaps. The columns come from
   analyze_dataset on the same dataframe, so df.get(column) is never None here
   (line 297). *)
generate_plots(n, outcomes, relations, relation_outcomes) ==
    LET art == [i \in 1..n |-> [column |-> PlannedChart(i).column,
                                graph_type |-> PlannedChart(i).graph_type,
                                file_exists |-> outcomes[i] = "ok"]]
        err == [i \in 1..n |-> Warning("dict", "render_error", PlannedChart(i).column,
                                       PlannedChart(i).graph_type, 0, 0)]
        rel == _handle_relations(relations, relation_outcomes)
    IN [plots |-> SeqMap(art, [i \in 1..n |-> outcomes[i] # "error"], 1) \o rel.plots,
        errors |-> SeqMap(err, [i \in 1..n |-> outcomes[i] = "error"], 1) \o rel.errors,
        raised |-> rel.raised]

(* mutant: the image files are not looked at *)
filter_valid_plots_unchecked(plots) ==
    [plots |-> plots,
     warnings |-> IF plots = <<>> THEN <<StrWarning("no_valid_plot")>> ELSE <<>>]

(* mutant: an empty artifact list goes unreported *)
filter_valid_plots_silent(plots) ==
    LET miss == [i \in 1..Len(plots) |-> Warning("str", "missing_file", plots[i].column, "", 0, 0)]
    IN [plots |-> SeqMap(plots, [i \in 1..Len(plots) |-> plots[i].file_exists], 1),
        warnings |-> SeqMap(miss, [i \in 1..Len(plots) |-> ~plots[i].file_exists], 1)]

(* pipeline_run lines 90-101: keep the artifacts whose file exists *)
filter_valid_plots(plots) ==
    LET miss == [i \in 1..Len(plots) |-> Warning("str", "missing_file", plots[i].column, "", 0, 0)]
        valid == SeqMap(plots, [i \in 1..Len(plots) |-> plots[i].file_exists], 1)
    IN [plots |-> valid,
        warnings |-> SeqMap(miss, [i \in 1..Len(plots) |-> ~plots[i].file_exists], 1)
                     \o (IF valid = <<>> THEN <<StrWarning("no_valid_plot")>> ELSE <<>>)]

(* mutant: the overview slide is not reserved *)
_enforce_slide_cap_no_overview(plots, diagnostic, max_slides) ==
    IF IsNone(max_slides) \/ Val(max_slides) = 0 THEN [plots |-> plots, trimmed |-> 0]
    ELSE LET allowed_plot_slides == Max(Val(max_slides) - 2, 0)
         IN IF allowed_plot_slides >= Len(plots) THEN [plots |-> plots, trimmed |-> 0]
            ELSE [plots |-> SubSeq(plots, 1, allowed_plot_slides),
                  trimmed |-> Len(plots) - allowed_plot_slides]

(* mutant: only the conclusion is reserved next to the overview *)
_enforce_slide_cap_one_short(plots, diagnostic, max_slides) ==
    IF IsNone(max_slides) \/ Val(max_slides) = 0 THEN [plots |-> plots, trimmed |-> 0]
    ELSE LET base_slides == IF diagnostic THEN 2 ELSE 1
             allowed_plot_slides == Max(Val(max_slides) - base_slides, 0)
         IN IF allowed_plot_slides >= Len(plots) THEN [plots |-> plots, trimmed |-> 0]
            ELSE [plots |-> SubSeq(plots, 1, allowed_plot_slides),
                  trimmed |-> Len(plots) - allowed_plot_slides]

_enforce_slide_cap(plots, diagnostic, max_slides) ==
    IF IsNone(max_slides) \/ Val(max_slides) = 0 THEN [plots |-> plots, trimmed |-> 0]
    ELSE LET base_slides == IF diagnostic THEN 3 ELSE 2
             allowed_plot_slides == Max(Val(max_slides) - base_slides, 0)
         IN IF allowed_plot_slides >= Len(plots) THEN [plots |-> plots, trimmed |-> 0]
            ELSE [plots |-> SubSeq(plots, 1, allowed_plot_slides),
                  trimmed |-> Len(plots) - allowed_plot_slides]

(* pipeline_run lines 103-107 *)
apply_slide_cap(plots, diagnostic, max_slides) ==
    LET capped == _enforce_slide_cap(plots, diagnostic, max_slides)
    IN [plots |-> capped.plots,
        warnings |-> IF capped.trimmed # 0
                     THEN <<Warning("str", "slide_cap", 0, "", capped.trimmed, Val(max_slides))>>
                     ELSE <<>>]

(* pipeline_run lines 137-138: options["diagnostic"], which additional_options
   may replace *)
presentation_diagnostic(diagnostic, additional_options) ==
    IF IsNone(additional_options.diagnostic) THEN diagnostic ELSE Val(additional_options.diagnostic)

(* the slide-building calls of build_presentation, in order *)
slide_calls(plots, diagnostic) ==
    <<[kind |-> "title", column |-> 0, graph_type |-> "", file_exists |-> TRUE]>>
    \o (IF diagnostic
        THEN <<[kind |-> "overview", column |-> 0, graph_type |-> "", file_exists |-> TRUE]>>
        ELSE <<>>)
    \o [i \in 1..Len(plots) |-> [kind |-> "graph", column |-> plots[i].column,
                                 graph_type |-> plots[i].graph_type,
                                 file_exists |-> plots[i].file_exists]]
    \o <<[kind |-> "conclusion", column |-> 0, graph_type |-> "", file_exists |-> TRUE]>>

(* mutant: a missing image is not reported *)
slide_errors_image_unreported(call, outcome) ==
    IF outcome # "ok"
    THEN <<Warning("str", "slide_failed", call.column, call.kind, 0, 0)>>
    ELSE <<>>

(* what one create_*_slide call leaves in the errors list *)
slide_errors(call, outcome) ==
    (IF call.kind = "graph" /\ ~call.file_exists /\ outcome \in {"ok", "raise_after_image"}
     THEN <<Warning("str", "image_missing", call.column, call.graph_type, 0, 0)>>
     ELSE <<>>)
    \o (IF outcome # "ok"
        THEN <<Warning("str", "slide_failed", call.column, call.kind, 0, 0)>>
        ELSE <<>>)

RECURSIVE Flatten(_, _)
Flatten(f, i) == IF i > Len(f) THEN <<>> ELSE f[i] \o Flatten(f, i + 1)

(* _order_plots, lines 392-396: a stable sort on the index of the column in
   plots_order, counted from 0; a column named twice has its last index and a
   column not named has the number of distinct names *)
_order_plots(plots, plots_order) ==
    IF IsNone(plots_order) \/ Val(plots_order) = <<>> THEN plots
    ELSE LET order == Val(plots_order)
             names == {order[k] : k \in 1..Len(order)}
             priority(column) ==
                 IF column \in names
                 THEN (CHOOSE k \in 1..Len(order) :
                          order[k] = column /\ \A l \in (k + 1)..Len(order) : order[l] # column) - 1
                 ELSE Cardinality(names)
             bucket == [k \in 1..(Len(order) + 1) |->
                          SeqMap(plots, [i \in 1..Len(plots) |-> priority(plots[i].column) = k - 1], 1)]
         IN Flatten(bucket, 1)

(* mutant: the caller's order is ignored *)
ordered_plots_as_given(plots, options) == plots

(* line 313 *)
ordered_plots(plots, options) == _order_plots(plots, options.plots_order)

(* build_presentation: slides are added by the first statement of each
   create_*_slide, so a call that raises later leaves its slide in the deck *)
build_presentation(plots, options, outcomes, theme_known, footer_ok, save_ok) ==
    LET calls == slide_calls(ordered_plots(plots, options), options.diagnostic)
        n == Len(calls)
        slide == [i \in 1..n |-> [kind |-> calls[i].kind, column |-> calls[i].column,
                                  graph_type |-> calls[i].graph_type,
                                  placeholder |-> ~calls[i].file_exists,
                                  complete |-> outcomes[i] = "ok"]]
        slides == SeqMap(slide, [i \in 1..n |-> outcomes[i] # "raise_before_add"], 1)
    IN [slides |-> Len(slides),
        deck |-> slides,
        saved |-> save_ok,
        errors |-> (IF theme_known THEN <<>> ELSE <<StrWarning("unknown_theme")>>)
                   \o Flatten([i \in 1..n |-> slide_errors(calls[i], outcomes[i])], 1)
                   \o (IF footer_ok THEN <<>> ELSE <<StrWarning("footer_failed")>>)
                   \o (IF save_ok THEN <<>> ELSE <<StrWarning("save_failed")>>)]

(* an exception object: its class and its message *)
Exc(type, message) == [type |-> type, message |-> message]
(* what a stage can let escape: any Exception subclass, PipelineError included *)
StageExceptions == {Exc("ValueError", "stage"), Exc("PipelineError", "inner")}

(* the locals of one run_pipeline / pipeline_run call *)
RunIdle ==
    [pc |-> "none", via |-> "pipeline_run", df |-> FALSE, diagnostic |-> FALSE,
     max_slides |-> None, additional_options |-> [diagnostic |-> None],
     workspace |-> "none", planned |-> 0, relations |-> <<>>, rendered |-> <<>>,
     valid_plots |-> <<>>, plots |-> <<>>, warnings |-> <<>>,
     use_ai_texts |-> FALSE, failures |-> 0, deck |-> <<>>, saved |-> FALSE,
     result |-> None, failed_at |-> "", raised |-> None, error |-> None]

MaxSlidesValues == {None} \cup {Some(m) : m \in 0..MaxCap} \cup {Some(FREE_MAX_SLIDES)}

(* a caller invokes pipeline_run(df, diagnostic, plan_params, additional_options),
   or run_pipeline(file_path, additional_options), which passes no plan_params
   and the loader's diagnostic; additional_options holds no diagnostic, or one
   that differs from the run's *)
PInit ==
    \/ \E df \in BOOLEAN, diagnostic \in BOOLEAN, max_slides \in MaxSlidesValues :
       \E override \in {None, Some(~diagnostic)} :
             run = [RunIdle EXCEPT !.pc = "called", !.df = df, !.diagnostic = diagnostic,
                                   !.max_slides = max_slides,
                                   !.additional_options = [diagnostic |-> override]]
    \/ \E override \in {None, Some(FALSE)} :
             run = [RunIdle EXCEPT !.pc = "loading", !.via = "run_pipeline",
                                   !.additional_options = [diagnostic |-> override]]

(* a raise statement outside the try of pipeline_run: lines 45 and 71 *)
raise_directly(r, stage, exc) ==
    [r EXCEPT !.pc = "failed", !.failed_at = stage, !.raised = Some(exc),
              !.error = Some(exc)]

(* mutant: the handler lets the stage's exception through as it is *)
pipeline_error_unmapped(exc) == exc

(* the except clauses of pipeline_run, lines 160-163: a PipelineError is raised
   again as it is, anything else becomes PipelineError(str(exc)) *)
pipeline_error(exc) ==
    IF exc.type = "PipelineError" THEN exc ELSE Exc("PipelineError", exc.message)

(* cleanup_path, utils.py lines 34-37 *)
cleanup_path(workspace) == IF workspace = "exists" THEN "deleted" ELSE workspace

(* an exception leaving the try of pipeline_run: except clause, then finally *)
raise_pipeline_error(r, stage, exc) ==
    [r EXCEPT !.pc = "failed", !.failed_at = stage, !.raised = Some(exc),
              !.error = Some(pipeline_error(exc)),
              !.workspace = cleanup_path(r.workspace)]

(* run_pipeline lines 41-45: the loader returns a dataframe with its diagnostic,
   or None with the error *)
run_pipeline ==
    /\ run.pc = "loading"
    /\ \E dataframe \in BOOLEAN :
          run' = IF dataframe
                 THEN [run EXCEPT !.pc = "called", !.df = TRUE, !.diagnostic = TRUE]
                 ELSE raise_directly(run, "load", Exc("PipelineError", "load"))
    /\ UNCHANGED <<now, db, req, committed, jcall, hcall, bcall, pool, ecall>>

(* lines 70-80: mkdtemp and the mkdir of the plots directory come before the
   try, so an OSError of either leaves pipeline_run as it is and the finally
   clause is not reached *)
WorkspaceOutcomes == {"ok", "mkdtemp_raises", "mkdir_raises"}
pipeline_start ==
    /\ run.pc = "called"
    /\ \E outcome \in WorkspaceOutcomes :
          run' = IF ~run.df THEN raise_directly(run, "no_data", Exc("PipelineError", "no_data"))
                 ELSE CASE outcome = "ok" ->
                             [run EXCEPT !.pc = "started", !.workspace = "exists"]
                        [] outcome = "mkdtemp_raises" ->
                             raise_directly(run, "workspace", Exc("OSError", "mkdtemp"))
                        [] outcome = "mkdir_raises" ->
                             [raise_directly(run, "workspace", Exc("OSError", "mkdir"))
                                 EXCEPT !.workspace = "exists"]
    /\ UNCHANGED <<now, db, req, committed, jcall, hcall, bcall, pool, ecall>>

(* lines 83-84: analyze_dataset plans the charts and the relations, or raises *)
pipeline_analyze ==
    /\ run.pc = "started"
    /\ \/ \E n \in 0..MaxPlots, relations \in RelationPlans :
             /\ relations # <<>> => n >= 3
             /\ run' = [run EXCEPT !.pc = "analyzed", !.planned = n, !.relations = relations]
       \/ \E exc \in StageExceptions : run' = raise_pipeline_error(run, "analysis", exc)
    /\ UNCHANGED <<now, db, req, committed, jcall, hcall, bcall, pool, ecall>>

(* lines 86-88 *)
pipeline_render ==
    /\ run.pc = "analyzed"
    /\ \E outcomes \in OutcomeVectors(run.planned, RenderOutcomes, MaxFailures) :
       \E relation_outcomes \in RelationVectors(run.relations, MaxFailures - Failures(outcomes)) :
       \E exc \in StageExceptions :
          LET plot_result == generate_plots(run.planned, outcomes,
                                            run.relations, relation_outcomes)
          IN run' = IF plot_result.raised
                    THEN raise_pipeline_error(run, "rendering", exc)
                    ELSE [run EXCEPT !.pc = "rendered",
                                     !.failures = Failures(outcomes) + Failures(relation_outcomes),
                                     !.warnings = @ \o plot_result.errors,
                                     !.rendered = plot_result.plots,
                                     !.plots = plot_result.plots]
    /\ UNCHANGED <<now, db, req, committed, jcall, hcall, bcall, pool, ecall>>

(* lines 90-101 *)
pipeline_filter ==
    /\ run.pc = "rendered"
    /\ LET filtered == filter_valid_plots(run.plots)
       IN run' = [run EXCEPT !.pc = "filtered",
                             !.valid_plots = filtered.plots,
                             !.plots = filtered.plots,
                             !.warnings = @ \o filtered.warnings]
    /\ UNCHANGED <<now, db, req, committed, jcall, hcall, bcall, pool, ecall>>

(* lines 103-107 *)
pipeline_cap ==
    /\ run.pc = "filtered"
    /\ LET capped == apply_slide_cap(run.plots, run.diagnostic, run.max_slides)
       IN run' = [run EXCEPT !.pc = "capped",
                             !.plots = capped.plots,
                             !.warnings = @ \o capped.warnings]
    /\ UNCHANGED <<now, db, req, committed, jcall, hcall, bcall, pool, ecall>>

(* lines 109-132: the text mode and the texts; module H falls back by itself,
   anything it lets escape becomes a PipelineError *)
TextModes == {"forced_fallback", "ai", "no_api_key", "raise"}
pipeline_compose ==
    /\ run.pc = "capped"
    /\ \E mode \in TextModes, exc \in StageExceptions :
          run' = CASE mode = "raise" -> raise_pipeline_error(run, "composition", exc)
                   [] mode = "ai" -> [run EXCEPT !.pc = "composed", !.use_ai_texts = TRUE]
                   [] OTHER -> [run EXCEPT !.pc = "composed",
                                           !.warnings = @ \o <<StrWarning(mode)>>]
    /\ UNCHANGED <<now, db, req, committed, jcall, hcall, bcall, pool, ecall>>

(* lines 134-159 and the finally: build the deck and return the result, or
   build_presentation raises outside its own try blocks (lines 285-299) *)
pipeline_build ==
    /\ run.pc = "composed"
    /\ LET diagnostic == presentation_diagnostic(run.diagnostic, run.additional_options)
           options == [diagnostic |-> diagnostic, plots_order |-> None]
           calls == slide_calls(ordered_plots(run.plots, options), diagnostic)
       IN \/ \E outcomes \in OutcomeVectors(Len(calls), BuildOutcomes, MaxFailures - run.failures),
                theme_known \in BOOLEAN, footer_ok \in BOOLEAN, save_ok \in BOOLEAN :
                /\ run.failures + Failures(outcomes)
                      + Cardinality({k \in {"theme", "footer", "save"} :
                                       \/ k = "theme" /\ ~theme_known
                                       \/ k = "footer" /\ ~footer_ok
                                       \/ k = "save" /\ ~save_ok}) <= MaxFailures
                /\ LET build_summary == build_presentation(run.plots, options, outcomes,
                                                           theme_known, footer_ok, save_ok)
                   IN run' = [run EXCEPT !.pc = "done",
                                         !.failures = 0,
                                         !.deck = build_summary.deck,
                                         !.saved = build_summary.saved,
                                         !.warnings = @ \o build_summary.errors,
                                         !.result = Some([pptx_path |-> "generated",
                                                          slides |-> build_summary.slides]),
                                         !.workspace = cleanup_path(run.workspace)]
          \/ \E exc \in StageExceptions : run' = raise_pipeline_error(run, "assembly", exc)
    /\ UNCHANGED <<now, db, req, committed, jcall, hcall, bcall, pool, ecall>>

(************************ module H: text composition ***********************)
RECURSIVE GroupedColumns(_, _, _)
(* _group_plots_by_column: the columns of the plots in order of first appearance *)
GroupedColumns(plots, i, seen) ==
    IF i > Len(plots) THEN <<>>
    ELSE IF plots[i].column \in seen THEN GroupedColumns(plots, i + 1, seen)
    ELSE <<plots[i].column>> \o GroupedColumns(plots, i + 1, seen \cup {plots[i].column})

(* the calls generate_texts_ai makes to the collaborator, in order: one per
   grouped column, one per correlation, the intro, the summary *)
Units(plots, correlations) ==
    LET cols == GroupedColumns(plots, 1, {})
    IN [i \in 1..Len(cols) |-> [kind |-> "column", column |-> cols[i]]]
       \o [j \in 1..correlations |-> [kind |-> "correlation", column |-> 0]]
       \o <<[kind |-> "intro", column |-> 0], [kind |-> "summary", column |-> 0]>>

(* what the collaborator does with one request: the transport raises, or it
   answers with no choice, a null content, or a content that is not JSON, a
   JSON list, an object without the asked keys, an object whose values are
   empty, or an object with texts *)
CollaboratorReplies ==
    {"transport_error", "no_choices", "content_none", "not_json", "json_list",
     "json_no_key", "json_empty_value", "json_text"}
Degraded(reply) == reply # "json_text"

(* _safe_json_loads, lines 99-103, of the stripped content *)
_safe_json_loads(content) ==
    CASE content = "json_list" -> [type |-> "list", keys |-> FALSE, value |-> ""]
      [] content = "json_no_key" -> [type |-> "dict", keys |-> FALSE, value |-> ""]
      [] content = "json_empty_value" -> [type |-> "dict", keys |-> TRUE, value |-> ""]
      [] content = "json_text" -> [type |-> "dict", keys |-> TRUE, value |-> "ai"]
      [] OTHER -> [type |-> "None", keys |-> FALSE, value |-> ""]

(* _call_openai_json, lines 106-135: the exception it raises, or the parsed
   object; response.choices[0] is read outside the try *)
_call_openai_json(reply) ==
    IF reply = "transport_error"
    THEN [raised |-> Some(Exc("AIGenerationError", "transport")), data |-> _safe_json_loads("")]
    ELSE IF reply = "no_choices"
    THEN [raised |-> Some(Exc("IndexError", "choices")), data |-> _safe_json_loads("")]
    ELSE LET content == IF reply = "content_none" THEN "" ELSE reply
             data == _safe_json_loads(content)
         IN IF data.type # "dict"
            THEN [raised |-> Some(Exc("AIGenerationError", "not_json")), data |-> data]
            ELSE [raised |-> None, data |-> data]

(* generate_column_text, generate_correlation_text, generate_global_intro and
   generate_summary: the key check after the call, and the text kept; a column
   text that is empty is replaced by DEFAULT_GENERIC_TEXT *)
generate_unit_text(unit, reply) ==
    LET response == _call_openai_json(reply)
    IN IF ~IsNone(response.raised) THEN [raised |-> response.raised, text |-> ""]
       ELSE IF ~response.data.keys
       THEN [raised |-> Some(Exc("AIGenerationError", "missing_key")), text |-> ""]
       ELSE [raised |-> None,
             text |-> IF unit.kind = "column" /\ response.data.value = ""
                      THEN "generic" ELSE response.data.value]

(* _call_module_d_fallback, lines 412-444: module D exports no
   generate_default_texts, so the legacy generate_texts runs with use_ai=False
   and its one text per column is used; no collaborator call is made *)
_call_module_d_fallback(plots) ==
    LET cols == GroupedColumns(plots, 1, {})
    IN [global_intro |-> "fallback", global_summary |-> "fallback",
        per_column |-> [i \in 1..Len(cols) |-> [column |-> cols[i], text |-> "fallback"]],
        correlations |-> <<>>]

(* mutant: the fallback fills in only what the AI pass had not produced yet *)
texts_after_ai_error_keep_partial(plots, per_column) ==
    LET fallback == _call_module_d_fallback(plots)
    IN [fallback EXCEPT !.per_column =
           [i \in 1..Len(@) |-> IF i <= Len(per_column) THEN per_column[i] ELSE @[i]]]

(* generate_texts_ai lines 568-569: the in-progress AI texts are dropped *)
texts_after_ai_error(plots, per_column) == _call_module_d_fallback(plots)

(* _ensure_client, lines 78-86 *)
_ensure_client(api_key, openai_usable) ==
    openai_usable /\ ~IsNone(api_key) /\ Val(api_key) # ""

Truthy(key) == ~IsNone(key) /\ Val(key) # ""

(* mutant: only the plan parameters can force the fallback *)
force_fallback_plan_only(plan_force, options_force) == plan_force

(* pipeline_run line 114 *)
force_fallback(plan_force, options_force) == plan_force \/ options_force

(* mutant: without the caller's use_ai flag the collaborator is not used *)
text_mode_use_ai_gated(use_ai, api_key, environ, plan_force, options_force) ==
    LET env_api_key == IF Truthy(api_key) THEN api_key ELSE environ
        auto_enable_ai == Truthy(env_api_key)
    IN IF force_fallback(plan_force, options_force)
       THEN [use_ai_texts |-> FALSE, warnings |-> <<StrWarning("forced_fallback")>>]
       ELSE IF auto_enable_ai /\ use_ai
       THEN [use_ai_texts |-> TRUE, warnings |-> <<>>]
       ELSE [use_ai_texts |-> FALSE, warnings |-> <<StrWarning("no_api_key")>>]

(* pipeline_run lines 111-123: use_ai_texts and the warning of the text mode;
   the use_ai argument of pipeline_run is in scope and is not read *)
text_mode(use_ai, api_key, environ, plan_force, options_force) ==
    LET env_api_key == IF Truthy(api_key) THEN api_key ELSE environ
        auto_enable_ai == Truthy(env_api_key)
    IN IF force_fallback(plan_force, options_force)
       THEN [use_ai_texts |-> FALSE, warnings |-> <<StrWarning("forced_fallback")>>]
       ELSE IF auto_enable_ai
       THEN [use_ai_texts |-> TRUE, warnings |-> <<>>]
       ELSE [use_ai_texts |-> FALSE, warnings |-> <<StrWarning("no_api_key")>>]

(* _generate_texts_with_module_h lines 199-204: the OPENAI_API_KEY variable as
   generate_texts_ai sees it *)
environ_for_call(use_ai, api_key, environ) ==
    IF ~use_ai THEN None
    ELSE IF Truthy(api_key) THEN api_key
    ELSE environ

(* _prepare_texts_for_presentation, lines 213-267: one entry per plot with the
   text of its column, and the conclusion *)
_prepare_texts_for_presentation(texts, plots) ==
    LET text_of(column) ==
            LET hits == {i \in 1..Len(texts.per_column) : texts.per_column[i].column = column}
            IN IF hits = {} THEN "unavailable"
               ELSE texts.per_column[CHOOSE i \in hits : TRUE].text
    IN [analyses |-> [i \in 1..Len(plots) |->
                         [column |-> plots[i].column, graph_type |-> plots[i].graph_type,
                          text |-> text_of(plots[i].column)]],
        conclusion |-> IF texts.global_summary # "" THEN texts.global_summary
                       ELSE IF texts.global_intro # "" THEN texts.global_intro
                       ELSE "unavailable"]

NoTexts == [global_intro |-> "", global_summary |-> "", per_column |-> <<>>, correlations |-> <<>>]
NoPrepared == [analyses |-> <<>>, conclusion |-> ""]

(* the locals of the text composition of one pipeline_run call *)
HIdle ==
    [pc |-> "none", plots |-> <<>>, correlations |-> 0, use_ai |-> FALSE, api_key |-> None,
     environ |-> None, environ_before |-> None, plan_force |-> FALSE, options_force |-> FALSE,
     openai_usable |-> FALSE, warnings |-> <<>>, use_ai_texts |-> FALSE,
     previous_value |-> None, unit |-> 0, per_column |-> <<>>,
     correlations_texts |-> <<>>, global_intro |-> "", ai_calls |-> 0,
     degraded |-> 0, ai_failure |-> None, texts |-> NoTexts,
     texts_for_ppt |-> NoPrepared, error |-> None]

ApiKeys == {None, Some(""), Some("arg-key")}
(* analysis["relations"]["correlations"]: none or one correlation to comment *)
CorrelationCounts == {0, 1}
EnvKeys == {None, Some("env-key")}

(* pipeline_run reaches line 109 with the plots kept by the cap; environ_before
   keeps the OPENAI_API_KEY value of that moment *)
HInit ==
    \E n \in 0..MaxPlots, correlations \in CorrelationCounts, use_ai \in BOOLEAN,
       api_key \in ApiKeys, environ \in EnvKeys, plan_force \in BOOLEAN, options_force \in BOOLEAN,
       openai_usable \in BOOLEAN :
          hcall = [HIdle EXCEPT !.pc = "capped",
                                !.plots = [i \in 1..n |-> [column |-> PlannedChart(i).column,
                                                           graph_type |-> PlannedChart(i).graph_type]],
                                !.correlations = correlations, !.use_ai = use_ai,
                                !.api_key = api_key, !.environ = environ,
                                !.environ_before = environ, !.plan_force = plan_force,
                                !.options_force = options_force,
                                !.openai_usable = openai_usable]

(* mutant: a variable that was absent before the call is not removed *)
restore_environ_no_pop(h) ==
    IF ~IsNone(h.previous_value) THEN h.previous_value ELSE h.environ

(* _generate_texts_with_module_h's finally, lines 206-210 *)
restore_environ(h) == h.previous_value

(* generate_texts_ai returns texts: back in pipeline_run at line 132 *)
texts_returned(h, texts) ==
    [h EXCEPT !.pc = "generated", !.texts = texts, !.environ = restore_environ(h)]

(* pipeline_run lines 109-123 *)
compose_select ==
    /\ hcall.pc = "capped"
    /\ LET mode == text_mode(hcall.use_ai, hcall.api_key, hcall.environ, hcall.plan_force,
                             hcall.options_force)
       IN hcall' = [hcall EXCEPT !.pc = "selected", !.use_ai_texts = mode.use_ai_texts,
                                 !.warnings = @ \o mode.warnings]
    /\ UNCHANGED <<now, db, req, committed, jcall, run, bcall, pool, ecall>>

(* lines 125-131, _generate_texts_with_module_h lines 195-205 and
   generate_texts_ai lines 523-535: without a client the fallback texts are
   returned at once *)
compose_enter ==
    /\ hcall.pc = "selected"
    /\ LET api_key == IF Truthy(hcall.api_key) /\ hcall.use_ai_texts THEN hcall.api_key ELSE None
           environ == environ_for_call(hcall.use_ai_texts, api_key, hcall.environ)
           entered == [hcall EXCEPT !.previous_value = hcall.environ, !.environ = environ]
       IN hcall' = IF _ensure_client(environ, hcall.openai_usable)
                   THEN [entered EXCEPT !.pc = "ai", !.unit = 1]
                   ELSE texts_returned(entered, _call_module_d_fallback(hcall.plots))
    /\ UNCHANGED <<now, db, req, committed, jcall, run, bcall, pool, ecall>>

(* generate_texts_ai lines 537-569: the next call to the collaborator *)
compose_ai_call ==
    /\ hcall.pc = "ai"
    /\ \E reply \in CollaboratorReplies :
          /\ hcall.degraded + (IF reply = "json_empty_value" THEN 1 ELSE 0) <= MaxFailures
          /\ LET units == Units(hcall.plots, hcall.correlations)
                 unit == units[hcall.unit]
                 outcome == generate_unit_text(unit, reply)
                 called == [hcall EXCEPT !.ai_calls = @ + 1,
                                         !.degraded = @ + (IF reply = "json_empty_value" THEN 1 ELSE 0)]
             IN hcall' =
                  IF ~IsNone(outcome.raised)
                  THEN IF Val(outcome.raised).type = "AIGenerationError"
                       THEN texts_returned([called EXCEPT !.ai_failure = Some(reply)],
                                           texts_after_ai_error(hcall.plots, hcall.per_column))
                       ELSE [called EXCEPT !.pc = "failed", !.ai_failure = Some(reply),
                                           !.environ = restore_environ(hcall),
                                           !.error = Some(pipeline_error(Val(outcome.raised)))]
                  ELSE CASE unit.kind = "column" ->
                              [called EXCEPT !.unit = @ + 1,
                                             !.per_column = Append(@, [column |-> unit.column,
                                                                       text |-> outcome.text])]
                         [] unit.kind = "correlation" ->
                              [called EXCEPT !.unit = @ + 1,
                                             !.correlations_texts = Append(@, outcome.text)]
                         [] unit.kind = "intro" ->
                              [called EXCEPT !.unit = @ + 1, !.global_intro = outcome.text]
                         [] OTHER ->
                              texts_returned(called,
                                  [global_intro |-> called.global_intro,
                                   global_summary |-> outcome.text,
                                   per_column |-> called.per_column,
                                   correlations |-> called.correlations_texts])
    /\ UNCHANGED <<now, db, req, committed, jcall, run, bcall, pool, ecall>>

(* line 132 *)
compose_prepare ==
    /\ hcall.pc = "generated"
    /\ hcall' = [hcall EXCEPT !.pc = "composed",
                              !.texts_for_ppt = _prepare_texts_for_presentation(hcall.texts, hcall.plots)]
    /\ UNCHANGED <<now, db, req, committed, jcall, run, bcall, pool, ecall>>

(*************************** module B: column types ************************)
(* module_b_analysis.py lines 19-23; the ratios are kept as fractions *)
IDENTIFIER_UNIQUE_RATIO == [num |-> 95, den |-> 100]
NUMERIC_DISCRETE_MAX_UNIQUE == 20
TEXT_CATEGORY_MAX_UNIQUE == 30
TEXT_CATEGORY_MAX_RATIO == [num |-> 3, den |-> 10]

(* count / total >= ratio, exactly as the float comparison decides it for these
   small integers *)
RatioAtLeast(count, total, ratio) == count * ratio.den >= ratio.num * total

SemanticTypes ==
    {"constant", "boolean", "date", "identifier", "numeric_discrete",
     "numeric_continuous", "categorical", "text"}

(* A pandas Series as the rules see it: its dtype, the number of non-missing and
   of missing entries, the number of distinct non-missing values, how many of
   the non-missing values pd.to_numeric and pd.to_datetime convert, and whether
   every distinct value, stripped and lower-cased, is one of BOOLEAN_CANONICAL.
   The counts are those around the thresholds of the rules. *)
Series ==
    {s \in [dtype : {"object", "numeric", "bool", "datetime", "category"},
            non_na : {0, 1, 2, 20, 40}, missing : {0, 1, 5},
            unique_count : {0, 1, 2, 19, 20, 21, 30, 31, 40},
            numeric_ok : 0..40, datetime_ok : 0..40, boolean_values : BOOLEAN] :
        /\ s.unique_count <= s.non_na
        /\ (s.non_na > 0) => (s.unique_count >= 1)
        /\ s.numeric_ok <= s.non_na
        /\ \/ s.numeric_ok \in {0, s.non_na}
           \/ 100 * s.numeric_ok >= 85 * s.non_na /\ 100 * s.numeric_ok <= 95 * s.non_na
        /\ s.datetime_ok <= s.non_na
        /\ \/ s.datetime_ok \in {0, s.non_na}
           \/ 10 * s.datetime_ok >= 7 * s.non_na /\ 10 * s.datetime_ok <= 8 * s.non_na
        /\ (s.dtype \in {"numeric", "bool", "datetime"}) => (s.numeric_ok = s.non_na)
        /\ (s.dtype = "datetime") => (s.datetime_ok = s.non_na /\ ~s.boolean_values)
        /\ (s.dtype = "bool") => (s.unique_count <= 2 /\ s.boolean_values)
        /\ (s.dtype = "numeric" /\ s.boolean_values) => (s.unique_count <= 2)
        /\ (s.non_na = 0) => ~s.boolean_values}

(* series.dropna(), line 36: a new Series without the missing entries *)
dropna(series) == [series EXCEPT !.missing = 0]

len(series) == series.non_na + series.missing

is_object_or_string_dtype(series) == series.dtype = "object"

(* lines 167-174 *)
_is_boolean_series(series) ==
    IF series.dtype = "bool" THEN TRUE
    ELSE IF dropna(series).non_na = 0 THEN FALSE
    ELSE series.boolean_values

(* lines 177-188: the share of the entries of the Series it is given *)
_is_datetime_series(series) ==
    IF series.dtype = "datetime" THEN TRUE
    ELSE RatioAtLeast(series.datetime_ok, Max(len(series), 1), [num |-> 8, den |-> 10])

(* lines 191-194 *)
_looks_identifier(series, unique_count, total_non_na) ==
    IF ~RatioAtLeast(unique_count, Max(total_non_na, 1), IDENTIFIER_UNIQUE_RATIO) THEN FALSE
    ELSE is_object_or_string_dtype(series)

(* lines 197-202: the share of the entries of the Series it is given *)
_is_numeric_series(series) ==
    IF series.dtype \in {"numeric", "bool"} THEN TRUE
    ELSE RatioAtLeast(series.numeric_ok, Max(len(series), 1), [num |-> 9, den |-> 10])

(* lines 205-210 *)
_is_categorical_text(series, unique_count, total_non_na) ==
    IF series.dtype = "category" THEN TRUE
    ELSE IF ~is_object_or_string_dtype(series) THEN FALSE
    ELSE \/ unique_count <= TEXT_CATEGORY_MAX_UNIQUE
         \/ unique_count * TEXT_CATEGORY_MAX_RATIO.den
               <= TEXT_CATEGORY_MAX_RATIO.num * Max(total_non_na, 1)

(* mutant: twenty distinct values already count as continuous *)
numeric_type_strict(unique_count) ==
    IF unique_count < NUMERIC_DISCRETE_MAX_UNIQUE THEN "numeric_discrete"
    ELSE "numeric_continuous"

(* lines 56-60 *)
numeric_type(unique_count) ==
    IF unique_count <= NUMERIC_DISCRETE_MAX_UNIQUE THEN "numeric_discrete"
    ELSE "numeric_continuous"

(* mutant: the numeric rule is tried before the date and identifier rules *)
infer_column_type_numeric_first(series) ==
    IF IsNone(series) THEN "constant"
    ELSE LET s == Val(series)
             non_na == dropna(s)
             total_non_na == len(non_na)
             unique_count == non_na.unique_count
         IN IF total_non_na = 0 THEN "constant"
            ELSE IF unique_count <= 1 THEN "constant"
            ELSE IF _is_boolean_series(s) THEN "boolean"
            ELSE IF _is_numeric_series(s) THEN numeric_type(unique_count)
            ELSE IF _is_datetime_series(non_na) THEN "date"
            ELSE IF _looks_identifier(s, unique_count, total_non_na) THEN "identifier"
            ELSE IF _is_categorical_text(s, unique_count, total_non_na) THEN "categorical"
            ELSE "text"

(* infer_column_type, lines 30-66: the date rule is given non_na, the other
   rules the Series as passed in *)
infer_column_type(series) ==
    IF IsNone(series) THEN "constant"
    ELSE LET s == Val(series)
             non_na == dropna(s)
             total_non_na == len(non_na)
             unique_count == non_na.unique_count
         IN IF total_non_na = 0 THEN "constant"
            ELSE IF unique_count <= 1 THEN "constant"
            ELSE IF _is_boolean_series(s) THEN "boolean"
            ELSE IF _is_datetime_series(non_na) THEN "date"
            ELSE IF _looks_identifier(s, unique_count, total_non_na) THEN "identifier"
            ELSE IF _is_numeric_series(s) THEN numeric_type(unique_count)
            ELSE IF _is_categorical_text(s, unique_count, total_non_na) THEN "categorical"
            ELSE "text"

(* mutant: the line chart of a time-indexed dataset comes first *)
detect_visualization_options_linechart_first(col_type, has_time_index) ==
    CASE col_type = "numeric_continuous" ->
            (IF has_time_index THEN <<"linechart">> ELSE <<>>)
            \o <<"histogram", "boxplot", "density">>
      [] col_type = "numeric_discrete" -> <<"barchart">>
      [] col_type \in {"categorical", "boolean"} -> <<"barchart", "top_categories">>
      [] col_type = "date" -> <<"linechart">>
      [] OTHER -> <<>>

(* detect_visualization_options, lines 69-90, for one column; a column with no
   option is left out of the candidates *)
detect_visualization_options(col_type, has_time_index) ==
    CASE col_type = "numeric_continuous" ->
            <<"histogram", "boxplot", "density">>
            \o (IF has_time_index THEN <<"linechart">> ELSE <<>>)
      [] col_type = "numeric_discrete" -> <<"barchart">>
      [] col_type \in {"categorical", "boolean"} -> <<"barchart", "top_categories">>
      [] col_type = "date" -> <<"linechart">>
      [] OTHER -> <<>>

(* generate_plots, lines 295-311, for the candidates of one column: each chart
   kind in list order gives one artifact, or one error dict when drawing raises *)
plot_candidates(column, graph_types, outcomes) ==
    LET n == Len(graph_types)
        art == [i \in 1..n |-> [column |-> column, graph_type |-> graph_types[i],
                                file_exists |-> TRUE]]
        err == [i \in 1..n |-> Warning("dict", "render_error", column, graph_types[i], 0, 0)]
    IN [plots |-> SeqMap(art, [i \in 1..n |-> outcomes[i] = "ok"], 1),
        errors |-> SeqMap(err, [i \in 1..n |-> outcomes[i] = "error"], 1)]

BIdle ==
    [pc |-> "idle", series |-> None, col_type |-> "", again |-> None,
     has_time_index |-> FALSE, options |-> <<>>, plots |-> <<>>, errors |-> <<>>]

(* analyze_dataset, line 298: the column is classified *)
analyze_classify ==
    /\ bcall.pc = "called"
    /\ bcall' = [bcall EXCEPT !.pc = "classified", !.col_type = infer_column_type(bcall.series)]
    /\ UNCHANGED <<now, db, req, committed, jcall, run, hcall, pool, ecall>>

(* infer_column_type called once more on the same column *)
analyze_classify_again ==
    /\ bcall.pc = "classified"
    /\ bcall' = [bcall EXCEPT !.pc = "reclassified",
                              !.again = Some(infer_column_type(bcall.series))]
    /\ UNCHANGED <<now, db, req, committed, jcall, run, hcall, pool, ecall>>

(* analyze_dataset, line 302: the charts of the column are planned *)
analyze_plan ==
    /\ bcall.pc = "classified"
    /\ \E has_time_index \in BOOLEAN :
          bcall' = [bcall EXCEPT !.pc = "planned", !.has_time_index = has_time_index,
                                 !.options = detect_visualization_options(bcall.col_type,
                                                                          has_time_index)]
    /\ UNCHANGED <<now, db, req, committed, jcall, run, hcall, pool, ecall>>

(* generate_plots on the planned charts of the column *)
plot_column ==
    /\ bcall.pc = "planned"
    /\ \E outcomes \in [1..Len(bcall.options) -> {"ok", "error"}] :
          LET r == plot_candidates(1, bcall.options, outcomes)
          IN bcall' = [bcall EXCEPT !.pc = "plotted", !.plots = r.plots, !.errors = r.errors]
    /\ UNCHANGED <<now, db, req, committed, jcall, run, hcall, pool, ecall>>

(********************* two /convert requests in flight *********************)
(* Each request has its own session (auth/service.py get_session) and its own
   User object, loaded from the row by get_current_user before the handler
   body runs. The handler awaits the upload (main.py line 136) after that, so
   another request of the same user can be served in between. *)
Requests == 1..2

PoolIdle == [r |-> [i \in Requests |-> ReqIdle], start |-> NoUser, overlapped |-> FALSE]

(* get_current_user and lines 126-133 for request i *)
pool_begin(i) ==
    /\ pool.r[i].pc = "idle"
    /\ \E filename_ok \in BOOLEAN :
          pool' = [pool EXCEPT
                      !.r[i] = IF filename_ok
                               THEN [ReqIdle EXCEPT !.pc = "uploading", !.current_user = db,
                                                    !.usage_snapshot = _snapshot_usage_state(db)]
                               ELSE [ReqIdle EXCEPT !.pc = "rejected", !.current_user = db,
                                                    !.status = 400],
                      !.overlapped = pool.overlapped
                                     \/ \E j \in Requests \ {i} : pool.r[j].pc \in InFlight]
    /\ UNCHANGED <<now, db, req, committed, jcall, run, hcall, bcall, ecall>>

(* lines 136-143 for request i *)
pool_load(i) ==
    /\ pool.r[i].pc = "uploading"
    /\ \E outcome \in LoadOutcomes, rows \in UploadRowCounts, expired \in BOOLEAN :
          pool' = [pool EXCEPT !.r[i] =
                      CASE outcome = "ok" -> [pool.r[i] EXCEPT !.pc = "loaded", !.dataframe = Some(rows)]
                        [] outcome = "ValueError" -> handle_error(pool.r[i], 400, expired)
                        [] outcome = "no_dataframe" -> handle_error(pool.r[i], 400, expired)
                        [] OTHER -> handle_error(pool.r[i], 500, expired)]
    /\ UNCHANGED <<now, db, req, committed, jcall, run, hcall, bcall, ecall>>

(* lines 145-147 for request i: the check reads and bumps the request's own
   User object *)
pool_check(i) ==
    /\ pool.r[i].pc = "loaded"
    /\ LET r == check_usage_limits(pool.r[i].current_user, pool.r[i].dataframe, None, now)
           checked == [pool.r[i] EXCEPT !.current_user = r.user, !.enforcement = r.response,
                                        !.reserved = TRUE]
       IN \E expired \in BOOLEAN :
             pool' = [pool EXCEPT !.r[i] = IF r.response.allowed
                                           THEN [checked EXCEPT !.pc = "allowed"]
                                           ELSE handle_error(checked, 403, expired)]
    /\ UNCHANGED <<now, db, req, committed, jcall, run, hcall, bcall, ecall>>

(* lines 149-170 for request i *)
pool_pipeline(i) ==
    /\ pool.r[i].pc = "allowed"
    /\ \E outcome \in PipelineOutcomes, expired \in BOOLEAN :
          pool' = [pool EXCEPT !.r[i] =
                      CASE outcome = "returned" -> [pool.r[i] EXCEPT !.pc = "ran", !.ran = TRUE]
                        [] outcome = "PipelineError" -> handle_error(pool.r[i], 400, expired)
                        [] OTHER -> handle_error([pool.r[i] EXCEPT !.ran = TRUE], 500, expired)]
    /\ UNCHANGED <<now, db, req, committed, jcall, run, hcall, bcall, ecall>>

(* lines 172-175 for request i: the commit writes the counter of the request's
   User object over the row *)
pool_commit(i) ==
    /\ pool.r[i].pc = "ran"
    /\ \E commit_ok \in BOOLEAN, expired \in BOOLEAN :
          IF commit_ok
          THEN /\ db' = session_commit(pool.r[i].current_user)
               /\ pool' = [pool EXCEPT !.r[i] = [pool.r[i] EXCEPT !.pc = "done", !.status = 200]]
               /\ committed' = committed + 1
          ELSE /\ pool' = [pool EXCEPT !.r[i] = handle_error(pool.r[i], 500, expired)]
               /\ UNCHANGED <<db, committed>>
    /\ UNCHANGED <<now, req, jcall, run, hcall, bcall, ecall>>

(******************** direct calls of build_presentation *******************)
(* the plots a caller hands over: up to three artifacts of two columns, each
   (column, chart kind) at most once, with or without its image file *)
PlotLists ==
    {p \in UNION {[1..n -> [column : {1, 2}, graph_type : {"barchart", "top_categories"},
                           file_exists : BOOLEAN]] : n \in 0..3} :
        \A i, j \in 1..Len(p) :
           (p[i].column = p[j].column /\ p[i].graph_type = p[j].graph_type) => i = j}

(* options["plots_order"]: absent, empty, or column names, some unknown or
   named twice *)
PlotsOrders == {None, Some(<<>>), Some(<<2>>), Some(<<2, 1>>), Some(<<3, 2>>), Some(<<2, 2>>)}

EIdle ==
    [pc |-> "idle", plots |-> <<>>, options |-> [diagnostic |-> FALSE, plots_order |-> None],
     outcomes |-> <<>>,
     summary |-> [slides |-> 0, deck |-> <<>>, saved |-> FALSE, errors |-> <<>>]]

(* build_presentation, lines 276-344, with what each create_*_slide call, the
   theme lookup, the footer and the save do; a create_graph_slide call can
   also raise after it noted the missing image (line 154) *)
build_call ==
    /\ ecall.pc = "called"
    /\ LET calls == slide_calls(ordered_plots(ecall.plots, ecall.options), ecall.options.diagnostic)
       IN \E outcomes \in OutcomeVectors(Len(calls), BuildOutcomes \cup {"raise_after_image"},
                                          MaxFailures),
             theme_known \in BOOLEAN, footer_ok \in BOOLEAN, save_ok \in BOOLEAN :
             /\ \A i \in 1..Len(calls) :
                   (outcomes[i] = "raise_after_image") =>
                      (calls[i].kind = "graph" /\ ~calls[i].file_exists)
             /\ Failures(outcomes)
                   + Cardinality({k \in {"theme", "footer", "save"} :
                                    \/ k = "theme" /\ ~theme_known
                                    \/ k = "footer" /\ ~footer_ok
                                    \/ k = "save" /\ ~save_ok}) <= MaxFailures
             /\ ecall' = [ecall EXCEPT !.pc = "returned", !.outcomes = outcomes,
                                       !.summary = build_presentation(ecall.plots, ecall.options,
                                                                      outcomes, theme_known,
                                                                      footer_ok, save_ok)]
    /\ UNCHANGED <<now, db, req, committed, jcall, run, hcall, bcall, pool>>

(**************************** specifications *******************************)

(* rows of the users table when the service starts *)
StoredPlans == {None, Some(StrFree), Some(<<" ", "P", "R", "O", " ">>)}
StoredUsers ==
    [plan : StoredPlans,
     conversions_this_month : {0, FREE_MONTHLY_LIMIT - 1, MaxConversions - 1},
     conversions_last_month : {0},
     last_reset_date : {None} \cup {Some(d) : d \in Dates}]

Init ==
    /\ now \in Dates
    /\ db \in StoredUsers
    /\ ~IsNone(db.last_reset_date) => ~DateBefore(now, Val(db.last_reset_date))
    /\ req = ReqIdle
    /\ committed = 0
    /\ jcall = JIdle
    /\ run = RunIdle
    /\ hcall = HIdle
    /\ bcall = BIdle
    /\ pool = PoolIdle
    /\ ecall = EIdle

Next ==
    \/ convert_begin
    \/ convert_load
    \/ convert_check
    \/ convert_pipeline
    \/ convert_commit
    \/ Tick

Spec == Init /\ [][Next]_vars

InitJ ==
    /\ JInit
    /\ db = NoUser
    /\ req = ReqIdle
    /\ committed = 0
    /\ run = RunIdle
    /\ hcall = HIdle
    /\ bcall = BIdle
    /\ pool = PoolIdle
    /\ ecall = EIdle

NextJ ==
    \/ JReset
    \/ JLimitChecks

SpecJ == InitJ /\ [][NextJ]_vars

InitP ==
    /\ PInit
    /\ now \in {[year |-> 1, month |-> 1, day |-> 1]}
    /\ db = NoUser
    /\ req = ReqIdle
    /\ committed = 0
    /\ jcall = JIdle
    /\ hcall = HIdle
    /\ bcall = BIdle
    /\ pool = PoolIdle
    /\ ecall = EIdle

NextP ==
    \/ run_pipeline
    \/ pipeline_start
    \/ pipeline_analyze
    \/ pipeline_render
    \/ pipeline_filter
    \/ pipeline_cap
    \/ pipeline_compose
    \/ pipeline_build

SpecP == InitP /\ [][NextP]_vars

InitH ==
    /\ HInit
    /\ now \in {[year |-> 1, month |-> 1, day |-> 1]}
    /\ db = NoUser
    /\ req = ReqIdle
    /\ committed = 0
    /\ jcall = JIdle
    /\ run = RunIdle
    /\ bcall = BIdle
    /\ pool = PoolIdle
    /\ ecall = EIdle

NextH ==
    \/ compose_select
    \/ compose_enter
    \/ compose_ai_call
    \/ compose_prepare

SpecH == InitH /\ [][NextH]_vars

(* analyze_dataset is handed one column of the dataframe *)
InitB ==
    /\ bcall \in {[BIdle EXCEPT !.pc = "called", !.series = s] :
                     s \in {None} \cup {Some(c) : c \in Series}}
    /\ now \in {[year |-> 1, month |-> 1, day |-> 1]}
    /\ db = NoUser
    /\ req = ReqIdle
    /\ committed = 0
    /\ jcall = JIdle
    /\ run = RunIdle
    /\ hcall = HIdle
    /\ pool = PoolIdle
    /\ ecall = EIdle

NextB ==
    \/ analyze_classify
    \/ analyze_classify_again
    \/ analyze_plan
    \/ plot_column

SpecB == InitB /\ [][NextB]_vars

InitC ==
    /\ now \in Dates
    /\ db \in StoredUsers
    /\ ~IsNone(db.last_reset_date) => ~DateBefore(now, Val(db.last_reset_date))
    /\ pool = [PoolIdle EXCEPT !.start = db]
    /\ ecall = EIdle
    /\ req = ReqIdle
    /\ committed = 0
    /\ jcall = JIdle
    /\ run = RunIdle
    /\ hcall = HIdle
    /\ bcall = BIdle

NextC ==
    \/ \E i \in Requests : pool_begin(i)
    \/ \E i \in Requests : pool_load(i)
    \/ \E i \in Requests : pool_check(i)
    \/ \E i \in Requests : pool_pipeline(i)
    \/ \E i \in Requests : pool_commit(i)

SpecC == InitC /\ [][NextC]_vars

(* a caller hands plots and options to build_presentation *)
InitE ==
    /\ \E plots \in PlotLists, diagnostic \in BOOLEAN, plots_order \in PlotsOrders :
          ecall = [EIdle EXCEPT !.pc = "called", !.plots = plots,
                                !.options = [diagnostic |-> diagnostic,
                                             plots_order |-> plots_order]]
    /\ now \in {[year |-> 1, month |-> 1, day |-> 1]}
    /\ db = NoUser
    /\ req = ReqIdle
    /\ committed = 0
    /\ jcall = JIdle
    /\ run = RunIdle
    /\ hcall = HIdle
    /\ bcall = BIdle
    /\ pool = PoolIdle

NextE ==
    \/ build_call

SpecE == InitE /\ [][NextE]_vars

(******************************* properties ********************************)
IsFree(user) == get_user_plan(user) # StrPro
ResetDue(user) ==
    /\ ~IsNone(user.last_reset_date)
    /\ ~SameMonth(Val(user.last_reset_date), now)
InCurrentMonth(user) ==
    /\ ~IsNone(user.last_reset_date)
    /\ SameMonth(Val(user.last_reset_date), now)
RowsOf(call) == IF IsNone(call.dataframe) THEN 0 ELSE Val(call.dataframe)
SlidesOver(call) ==
    /\ ~IsNone(call.requested_slide_count)
    /\ Val(call.requested_slide_count) > FREE_MAX_SLIDES

(* C1: in /convert, a request that fails leaves the user's three usage fields
   equal to the snapshot taken before the reservation, and the stored row is
   untouched until a request whose pipeline run returned commits. *)
C1_RollbackOnFailure ==
    /\ req.pc = "failed" =>
          /\ _snapshot_usage_state(req.current_user) = req.usage_snapshot
          /\ _snapshot_usage_state(db) = req.usage_snapshot
    /\ req.pc \in InFlight => _snapshot_usage_state(db) = req.usage_snapshot
    /\ req.pc = "done" =>
          /\ req.ran /\ req.enforcement.allowed
          /\ _snapshot_usage_state(db) = _snapshot_usage_state(req.current_user)

(* a pipeline error after an allowed check whose reset step and increment had
   changed all three fields *)
C1_Witness ==
    /\ req.pc = "failed" /\ req.status = 400
    /\ req.reserved /\ req.enforcement.allowed
    /\ req.usage_snapshot.conversions_this_month = FREE_MONTHLY_LIMIT - 1
    /\ ~IsNone(req.usage_snapshot.last_reset_date)
    /\ ~SameMonth(Val(req.usage_snapshot.last_reset_date), now)

(* C2: a free-plan user whose conversions_this_month is 10 is denied whatever the
   row count and slide count, also when last_reset_date was never set (self-test
   2 of module J). Stated for users whose last reset is unset or in the current
   month; a reset in an earlier month is the case of C3. *)
C2_FreeAtLimitDenied ==
    ( /\ jcall.pc = "returned"
      /\ IsFree(jcall.before)
      /\ jcall.before.conversions_this_month = FREE_MONTHLY_LIMIT
      /\ (IsNone(jcall.before.last_reset_date) \/ InCurrentMonth(jcall.before)) )
    => ~jcall.response.allowed

(* C3: the reset step runs first and for every plan: a last reset in another
   month or year zeroes the counter, archives its value and stamps now, so a free
   user with 10 or more conversions from an earlier month is checked against 0; a
   last reset in the current month leaves the three fields unchanged. *)
C3_ResetBeforeChecks ==
    jcall.pc \in {"reset", "returned"} =>
       /\ ResetDue(jcall.before) =>
             /\ jcall.after_reset.conversions_this_month = 0
             /\ jcall.after_reset.conversions_last_month = jcall.before.conversions_this_month
             /\ jcall.after_reset.last_reset_date = Some(now)
       /\ InCurrentMonth(jcall.before) => jcall.after_reset = jcall.before
       /\ jcall.after_reset.plan = jcall.before.plan
       /\ ( /\ jcall.pc = "returned"
            /\ ResetDue(jcall.before)
            /\ IsFree(jcall.before)
            /\ RowsOf(jcall) <= FREE_MAX_ROWS
            /\ ~SlidesOver(jcall) )
          => /\ jcall.response.allowed
             /\ jcall.user.conversions_this_month = 1

C3_Witness ==
    /\ jcall.pc = "returned"
    /\ IsFree(jcall.before)
    /\ jcall.before.conversions_this_month >= FREE_MONTHLY_LIMIT
    /\ ResetDue(jcall.before)
    /\ Val(jcall.before.last_reset_date).month = now.month
    /\ jcall.response.allowed
    /\ jcall.user.conversions_last_month = jcall.before.conversions_this_month

(* C4: for a free user, among serialized requests of one calendar month at most
   10 are allowed and committed, failed and rolled-back ones included in the
   sequence; a commit never stores a counter above 10 for a free user. *)
C4_FreeQuota ==
    IsFree(db) =>
       /\ committed <= FREE_MONTHLY_LIMIT
       /\ req.pc = "done" => db.conversions_this_month <= FREE_MONTHLY_LIMIT

(* the monthly quota is used up and the next request was refused *)
C4_Witness ==
    /\ IsFree(db)
    /\ committed = FREE_MONTHLY_LIMIT
    /\ db.conversions_this_month = FREE_MONTHLY_LIMIT
    /\ req.pc = "failed" /\ req.status = 403

(* C5: an allowed call leaves conversions_this_month exactly 1 above its value
   after the reset step and writes last_reset_date only when it was unset; a free
   user with no conversion this month and a 100-row dataset ends with 1. *)
C5_AllowIncrementsByOne ==
    (jcall.pc = "returned" /\ jcall.response.allowed) =>
       /\ jcall.user.conversions_this_month = jcall.after_reset.conversions_this_month + 1
       /\ ~IsNone(jcall.after_reset.last_reset_date)
             => jcall.user.last_reset_date = jcall.after_reset.last_reset_date
       /\ ~IsNone(jcall.user.last_reset_date)
       /\ jcall.user.conversions_last_month = jcall.after_reset.conversions_last_month
       /\ jcall.user.plan = jcall.before.plan
       /\ (IsFree(jcall.before) /\ jcall.before.conversions_this_month = 0)
             => jcall.user.conversions_this_month = 1

(* the free user of self-test 3 reset earlier this month: counter 1, stamp kept *)
C5_Witness ==
    /\ jcall.pc = "returned" /\ jcall.response.allowed
    /\ IsFree(jcall.before)
    /\ jcall.before.conversions_this_month = 0
    /\ jcall.dataframe = Some(100)
    /\ InCurrentMonth(jcall.before)
    /\ jcall.before.last_reset_date # Some(now)
    /\ jcall.user.conversions_this_month = 1
    /\ jcall.user.last_reset_date = jcall.before.last_reset_date

ProParameters ==
    [max_slides |-> None, ai_style |-> "executive", watermark |-> FALSE, template |-> "pro_template"]
FreeParameters ==
    [max_slides |-> Some(8), ai_style |-> "light", watermark |-> TRUE, template |-> "default"]
ProSpellings == {Some(StrPro), Some(<<"P", "r", "o">>), Some(<<" ", "P", "R", "O", " ">>)}

(* C6: a pro user is always allowed with max_slides None, for every counter, row
   count and slide count, and the counter is still incremented. *)
C6_ProAlwaysAllowed ==
    (jcall.pc = "returned" /\ jcall.before.plan \in ProSpellings) =>
       /\ jcall.response.allowed
       /\ jcall.response.error = None
       /\ Val(jcall.response.params).max_slides = None
       /\ jcall.user.conversions_this_month = jcall.after_reset.conversions_this_month + 1

(* self-test 4 with the counter past the free limit *)
C6_Witness ==
    /\ jcall.pc = "returned"
    /\ jcall.before.plan = Some(StrPro)
    /\ InCurrentMonth(jcall.before)
    /\ jcall.before.conversions_this_month >= FREE_MONTHLY_LIMIT
    /\ jcall.dataframe = Some(FREE_MAX_ROWS + 1)
    /\ jcall.requested_slide_count = Some(FREE_MAX_SLIDES + 1)
    /\ jcall.response.allowed
    /\ jcall.user.conversions_this_month = jcall.before.conversions_this_month + 1

(* C7: a free user under the quota is denied exactly when the dataset has more
   than 5000 rows or a specified slide count exceeds 8; the checks run in the
   order quota, rows, slides and the first failing one gives the reason. *)
C7_FreeLimits ==
    (jcall.pc = "returned" /\ IsFree(jcall.before)) =>
       LET over_quota == jcall.after_reset.conversions_this_month >= 10
           over_rows == RowsOf(jcall) > 5000
           over_slides == SlidesOver(jcall)
       IN /\ jcall.response.allowed <=> ~(over_quota \/ over_rows \/ over_slides)
          /\ over_quota => jcall.response.error = Some(ERR_MONTHLY_LIMIT)
          /\ (~over_quota /\ over_rows) => jcall.response.error = Some(ERR_ROW_LIMIT)
          /\ (~over_quota /\ ~over_rows /\ over_slides) => jcall.response.error = Some(ERR_SLIDE_LIMIT)
          /\ jcall.response.allowed => jcall.response.error = None

(* exactly 5000 rows and exactly 8 slides pass *)
C7_Witness ==
    /\ jcall.pc = "returned" /\ IsFree(jcall.before)
    /\ jcall.after_reset.conversions_this_month < FREE_MONTHLY_LIMIT
    /\ jcall.dataframe = Some(5000)
    /\ jcall.requested_slide_count = Some(8)
    /\ jcall.response.allowed

(* C8: the plan parameters depend on the plan tier only: pro gives no slide cap,
   style executive, no watermark; every other plan value gives cap 8, style light,
   watermark; the usage counters do not enter and nothing is mutated. *)
C8_PlanParameters ==
    LET expected == IF jcall.before.plan \in ProSpellings THEN ProParameters ELSE FreeParameters
    IN /\ apply_plan_parameters(jcall.user) = expected
       /\ apply_plan_parameters(jcall.before) = expected
       /\ jcall.pc # "called" => apply_plan_parameters(jcall.after_reset) = expected
       /\ jcall.user.plan = jcall.before.plan
       /\ jcall.response.allowed => jcall.response.params = Some(expected)

C8_Witness ==
    /\ jcall.pc = "returned"
    /\ jcall.before.plan = Some(<<" ", "P", "R", "O", " ">>)
    /\ jcall.response.params = Some(ProParameters)
    /\ jcall.user.conversions_this_month # jcall.before.conversions_this_month

IsCapWarning(w) == w.kind = "slide_cap"
IsGraphSlide(sl) == sl.kind = "graph"
HasCap(r) == ~IsNone(r.max_slides) /\ Val(r.max_slides) >= 1
Reserved(r) == IF r.diagnostic THEN 3 ELSE 2
(* a slide of this kind is in the deck, or its create call raised *)
BuiltOrRaised(r, kind) ==
    \/ \E i \in 1..Len(r.deck) : r.deck[i].kind = kind
    \/ \E i \in 1..Len(r.warnings) :
          r.warnings[i].kind = "slide_failed" /\ r.warnings[i].graph_type = kind

(* C9: with a cap and n valid artifacts the orchestrator reserves 2 slides (3 with
   a diagnostic), keeps the first min(n, max(max_slides - reserved, 0)) artifacts
   in order and, when any is dropped, records one warning carrying n minus the
   number kept; with cap 8 and a diagnostic at most 5 are kept; with no cap
   nothing is dropped and no such warning is recorded. A max_slides of 0 is
   falsy in the code and counts as no cap. *)
C9_SlideCap ==
    run.pc \in {"capped", "composed", "done"} =>
       LET n == Len(run.valid_plots)
           cap_warnings == SelectSeq(run.warnings, IsCapWarning)
       IN IF HasCap(run)
          THEN LET kept == Min(n, Max(Val(run.max_slides) - Reserved(run), 0))
               IN /\ run.plots = SubSeq(run.valid_plots, 1, kept)
                  /\ kept < n => /\ Len(cap_warnings) = 1
                                 /\ cap_warnings[1].count = n - kept
                                 /\ cap_warnings[1].limit = Val(run.max_slides)
                  /\ kept = n => cap_warnings = <<>>
                  /\ (Val(run.max_slides) = 8 /\ run.diagnostic) => Len(run.plots) <= 5
          ELSE /\ run.plots = run.valid_plots
               /\ cap_warnings = <<>>

(* the free cap with a diagnostic: six valid artifacts, five kept, one reported *)
C9_Witness ==
    /\ run.pc = "capped"
    /\ run.max_slides = Some(FREE_MAX_SLIDES) /\ run.diagnostic
    /\ Len(run.valid_plots) = 6
    /\ Len(run.plots) = 5
    /\ \E i \in 1..Len(run.warnings) : IsCapWarning(run.warnings[i]) /\ run.warnings[i].count = 1

(* C10 as stated: for every positive max_slides the deck has at most max_slides
   slides in total. *)
C10_DeckWithinCap ==
    (run.pc = "done" /\ HasCap(run)) => Val(run.result).slides <= Val(run.max_slides)

(* C10 amended: the deck has at most max(max_slides, reserved) slides, reserved
   being 2 or 3 with the run's diagnostic, plus one when additional_options
   brings a diagnostic the run has not; the cap removes chart slides only, the
   title and conclusion calls are always made. *)
C10_DeckWithinCapOrReserved ==
    (run.pc = "done" /\ HasCap(run)) =>
       LET extra == IF ~run.diagnostic
                       /\ presentation_diagnostic(run.diagnostic, run.additional_options)
                    THEN 1 ELSE 0
       IN /\ Val(run.result).slides = Len(run.deck)
          /\ Val(run.result).slides <= Max(Val(run.max_slides), Reserved(run)) + extra
          /\ Len(SelectSeq(run.deck, IsGraphSlide)) <= Max(Val(run.max_slides) - Reserved(run), 0)
          /\ BuiltOrRaised(run, "title")
          /\ BuiltOrRaised(run, "conclusion")

(* a full free deck: title, overview, five of six charts, conclusion *)
C10_Witness ==
    /\ run.pc = "done"
    /\ run.max_slides = Some(FREE_MAX_SLIDES) /\ run.diagnostic
    /\ Len(run.valid_plots) = 6
    /\ Val(run.result).slides = FREE_MAX_SLIDES
    /\ run.deck[1].kind = "title"
    /\ run.deck[Len(run.deck)].kind = "conclusion"

Stages == {"analysis", "rendering", "composition", "assembly"}
Ended(r) == r.pc \in {"done", "failed"}

(* C11: once pipeline_run has returned a result or raised, the workspace the run
   allocated no longer exists. *)
C11_WorkspaceDeleted ==
    Ended(run) => run.workspace # "exists"

(* C12: a run whose document could not be saved ends failed; a result with an
   output path is returned only for a saved document. *)
C12_SaveFailureFailsRun ==
    (run.pc = "done" /\ ~IsNone(run.result)) => run.saved

(* C13: an exception that leaves a stage of pipeline_run reaches the caller as a
   PipelineError carrying its message, a PipelineError among them unchanged, and
   the workspace is gone by then; run_pipeline raises PipelineError when the
   loader returns no dataframe. *)
C13_SinglePipelineError ==
    /\ (run.pc = "failed" /\ run.failed_at \in Stages) =>
          /\ Val(run.error).type = "PipelineError"
          /\ Val(run.error).message = Val(run.raised).message
          /\ Val(run.raised).type = "PipelineError" => run.error = run.raised
    /\ (run.pc = "failed" /\ run.failed_at \in {"load", "no_data"}) =>
          Val(run.error).type = "PipelineError"
    /\ (run.via = "run_pipeline" /\ Ended(run) /\ ~run.df) =>
          /\ run.pc = "failed"
          /\ run.failed_at = "load"

(* the matrix of a relation heatmap could not be computed: the ValueError of
   generate_plots arrives as a PipelineError *)
C13_Witness ==
    /\ run.pc = "failed" /\ run.failed_at = "rendering"
    /\ Val(run.raised).type = "ValueError"
    /\ Val(run.error) = Exc("PipelineError", "stage")
    /\ run.via = "run_pipeline"

Composed(h) == h.pc \in {"generated", "composed"}
(* the texts of a returned text set, and of what is handed to the assembler *)
TextsOf(texts) ==
    {texts.global_intro, texts.global_summary}
       \cup {texts.per_column[i].text : i \in 1..Len(texts.per_column)}
       \cup {texts.correlations[j] : j \in 1..Len(texts.correlations)}
PreparedTextsOf(prepared) ==
    {prepared.conclusion} \cup {prepared.analyses[i].text : i \in 1..Len(prepared.analyses)}

(* C14: when a call of the AI pass fails with a transport error, an unusable
   content or a missing key, every text returned is the fallback's, whatever the
   pass had produced before; a returned text set never holds fallback texts next
   to texts of the AI pass. *)
C14_AllOrNothing ==
    Composed(hcall) =>
       /\ ~IsNone(hcall.ai_failure) =>
             /\ hcall.texts = _call_module_d_fallback(hcall.plots)
             /\ TextsOf(hcall.texts) = {"fallback"}
             /\ hcall.pc = "composed" => PreparedTextsOf(hcall.texts_for_ppt) = {"fallback"}
       /\ "fallback" \in TextsOf(hcall.texts) => TextsOf(hcall.texts) = {"fallback"}

(* the summary, asked last, comes without its key after three column texts,
   a correlation text and the intro had been produced *)
C14_Witness ==
    /\ hcall.pc = "composed"
    /\ hcall.ai_failure = Some("json_no_key")
    /\ Len(hcall.per_column) = 3
    /\ hcall.per_column[1].text = "ai"
    /\ hcall.global_intro = "ai"
    /\ hcall.ai_calls = Len(Units(hcall.plots, hcall.correlations))
    /\ Len(hcall.texts_for_ppt.analyses) = MaxPlots

(* C15: whatever the collaborator does, text composition returns a text set and
   the run goes on to assembly; no error of the composition reaches the caller. *)
C15_AIFailureRecovered ==
    ~IsNone(hcall.ai_failure) =>
       /\ hcall.pc # "failed"
       /\ IsNone(hcall.error)

(* C16: with no credential in the api_key argument and the environment, or with
   the fallback forced by the plan parameters or the additional options, the
   collaborator is never called, the texts are the fallback's and one warning
   names the mode; when every call of the AI pass yields its texts, the text set
   returned holds exactly them. *)
C16_StrategySelection ==
    LET forced == hcall.plan_force \/ hcall.options_force
        no_credential == ~Truthy(hcall.api_key) /\ ~Truthy(hcall.environ)
        units == Units(hcall.plots, hcall.correlations)
        cols == GroupedColumns(hcall.plots, 1, {})
    IN Composed(hcall) =>
          /\ (forced \/ no_credential) =>
                /\ hcall.ai_calls = 0
                /\ ~hcall.use_ai_texts
                /\ hcall.texts = _call_module_d_fallback(hcall.plots)
                /\ hcall.warnings = <<StrWarning(IF forced THEN "forced_fallback"
                                                 ELSE "no_api_key")>>
          /\ (hcall.ai_calls = Len(units) /\ IsNone(hcall.ai_failure) /\ hcall.degraded = 0) =>
                /\ hcall.warnings = <<>>
                /\ hcall.texts.global_intro = "ai"
                /\ hcall.texts.global_summary = "ai"
                /\ hcall.texts.per_column = [i \in 1..Len(cols) |-> [column |-> cols[i], text |-> "ai"]]
                /\ hcall.texts.correlations = [j \in 1..hcall.correlations |-> "ai"]

(* the additional options force the fallback while a key is in the environment
   and the client could be built *)
C16_Witness ==
    /\ hcall.pc = "composed"
    /\ hcall.options_force /\ ~hcall.plan_force
    /\ hcall.environ = Some("env-key") /\ hcall.openai_usable
    /\ hcall.ai_calls = 0
    /\ Len(hcall.plots) = MaxPlots
    /\ hcall.texts.per_column[1].text = "fallback"

IsRenderError(w) == w.kind = "render_error"
IsMissingFile(w) == w.kind = "missing_file"
IsNoValidPlot(w) == w.kind = "no_valid_plot"
Rendered(r) == r.pc \in {"rendered", "filtered", "capped", "composed", "done"}
Filtered(r) == r.pc \in {"filtered", "capped", "composed", "done"}
(* the entries of a list that are about one chart *)
EntriesFor(list, column, graph_type) ==
    {i \in 1..Len(list) : list[i].column = column /\ list[i].graph_type = graph_type}

(* C17: generate_plots answers for every planned chart and every planned
   relation heatmap with exactly one entry, an artifact or an error, and an
   error while one chart is drawn never keeps the later ones from being drawn:
   rendering itself does not make the run fail. *)
C17_EveryPlannedChartAccounted ==
    /\ Rendered(run) =>
          LET errors == SelectSeq(run.warnings, IsRenderError)
              entries(column, graph_type) ==
                  Cardinality(EntriesFor(run.rendered, column, graph_type))
                     + Cardinality(EntriesFor(errors, column, graph_type))
          IN /\ \A i \in 1..run.planned :
                   entries(PlannedChart(i).column, PlannedChart(i).graph_type) = 1
             /\ \A j \in 1..Len(run.relations) :
                   entries(RelationColumn(j), run.relations[j]) = 1
    /\ run.pc = "failed" => run.failed_at # "rendering"

(* C18: the artifacts handed on by the filter are those of the render output
   whose file exists, in their order; each artifact without a file is left out
   with one warning naming its column. *)
C18_OnlyExistingImages ==
    Filtered(run) =>
       LET missing == SelectSeq(run.warnings, IsMissingFile)
           keep == [i \in 1..Len(run.rendered) |-> run.rendered[i].file_exists]
           lost == SeqMap(run.rendered, [i \in 1..Len(run.rendered) |-> ~keep[i]], 1)
       IN /\ run.valid_plots = SeqMap(run.rendered, keep, 1)
          /\ \A i \in 1..Len(run.plots) : run.plots[i].file_exists
          /\ Len(missing) = Len(lost)
          /\ \A i \in 1..Len(lost) : missing[i].column = lost[i].column /\ missing[i].form = "str"

(* a relation heatmap and five charts are kept, the sixth chart left no file *)
C18_Witness ==
    /\ run.pc = "done"
    /\ Len(run.rendered) = MaxPlots + 1
    /\ ~run.rendered[MaxPlots].file_exists
    /\ Len(run.valid_plots) = MaxPlots
    /\ \E i \in 1..Len(run.warnings) :
          IsMissingFile(run.warnings[i])
             /\ run.warnings[i].column = PlannedChart(MaxPlots).column

(* C19: with no artifact left after the filter one warning says so, the cap
   step and the later steps go on as usual, and a finished run has a deck of the
   title slide, the overview slide when a diagnostic is given, and the
   conclusion slide, without any chart slide. *)
C19_NoChartRun ==
    /\ [](Filtered(run) =>
            Len(SelectSeq(run.warnings, IsNoValidPlot)) = (IF run.valid_plots = <<>> THEN 1 ELSE 0))
    /\ []((run.pc = "done" /\ run.valid_plots = <<>>) =>
            LET diagnostic == presentation_diagnostic(run.diagnostic, run.additional_options)
                built == \A i \in 1..Len(run.warnings) : run.warnings[i].kind # "slide_failed"
            IN /\ SelectSeq(run.deck, IsGraphSlide) = <<>>
               /\ Val(run.result).slides = Len(run.deck)
               /\ built => [i \in 1..Len(run.deck) |-> run.deck[i].kind]
                              = <<"title">> \o (IF diagnostic THEN <<"overview">> ELSE <<>>)
                                            \o <<"conclusion">>)
    /\ [][(run.pc = "filtered" /\ run.valid_plots = <<>>) =>
             (run'.pc = "capped" /\ run'.plots = <<>> /\ run'.warnings = run.warnings)]_vars

(* the only planned chart left no file: three slides, two warnings *)
C19_Witness ==
    /\ run.pc = "done"
    /\ run.planned = 1 /\ Len(run.rendered) = 1
    /\ run.valid_plots = <<>>
    /\ run.diagnostic
    /\ Val(run.result).slides = 3
    /\ \E i \in 1..Len(run.warnings) : IsNoValidPlot(run.warnings[i])

StageRank(w) ==
    CASE w.kind = "render_error" -> 1
      [] w.kind \in {"missing_file", "no_valid_plot"} -> 2
      [] w.kind = "slide_cap" -> 3
      [] w.kind \in {"forced_fallback", "no_api_key"} -> 4
      [] OTHER -> 5

(* C20: every entry of the warnings of a result is a string, the entries about
   charts that could not be rendered included, and the entries come in the
   order of the stages. *)
C20_WarningsAreStrings ==
    run.pc = "done" =>
       /\ \A i \in 1..Len(run.warnings) : run.warnings[i].form = "str"
       /\ \A i, j \in 1..Len(run.warnings) :
             i < j => StageRank(run.warnings[i]) <= StageRank(run.warnings[j])

(* a column that has been classified *)
Classified ==
    bcall.pc \in {"classified", "reclassified", "planned", "plotted"} /\ ~IsNone(bcall.series)

AllValuesNumeric(s) == s.non_na > 0 /\ s.numeric_ok = s.non_na

DiscreteUpTo20(unique_count, col_type) ==
    /\ (col_type = "numeric_discrete") <=> (unique_count <= 20)
    /\ (col_type = "numeric_continuous") <=> (unique_count > 20)

(* the column gets past the constant, boolean, date and identifier rules *)
ReachesNumericRule(s) ==
    /\ s.unique_count >= 2
    /\ ~(s.dtype = "bool" \/ s.boolean_values)
    /\ ~(s.dtype = "datetime" \/ 10 * s.datetime_ok >= 8 * s.non_na)
    /\ ~(s.dtype = "object" /\ 100 * s.unique_count >= 95 * s.non_na)

(* C21 as stated: every column whose non-missing values all coerce to a number
   is numeric_discrete when it has at most 20 distinct values and
   numeric_continuous otherwise. *)
C21_NumericByDistinctCount ==
    Classified =>
       LET s == Val(bcall.series)
       IN AllValuesNumeric(s) => DiscreteUpTo20(s.unique_count, bcall.col_type)

(* C21: a column whose non-missing values all coerce to a number, that gets
   past the constant, boolean, date and identifier rules and, when it is not of
   numeric storage, whose values are at least 90% of all its entries, is
   numeric_discrete when it has at most 20 distinct values and
   numeric_continuous otherwise. *)
C21_NumericByDistinctCountAfterEarlierRules ==
    Classified =>
       LET s == Val(bcall.series)
       IN (/\ AllValuesNumeric(s)
           /\ ReachesNumericRule(s)
           /\ (s.dtype = "numeric" \/ 10 * s.non_na >= 9 * (s.non_na + s.missing)))
          => DiscreteUpTo20(s.unique_count, bcall.col_type)

(* numbers stored as text, twenty distinct values among forty, one entry missing *)
C21_Witness ==
    /\ Classified
    /\ Val(bcall.series).dtype = "object"
    /\ Val(bcall.series).non_na = 40 /\ Val(bcall.series).missing = 1
    /\ Val(bcall.series).numeric_ok = 40
    /\ Val(bcall.series).unique_count = 20
    /\ ReachesNumericRule(Val(bcall.series))
    /\ bcall.col_type = "numeric_discrete"

(* the chart kinds the plan lists for a semantic type *)
ChartsOf(col_type, has_time_index) ==
    IF col_type = "numeric_continuous"
    THEN IF has_time_index THEN <<"histogram", "boxplot", "density", "linechart">>
         ELSE <<"histogram", "boxplot", "density">>
    ELSE IF col_type = "numeric_discrete" THEN <<"barchart">>
    ELSE IF col_type = "categorical" \/ col_type = "boolean" THEN <<"barchart", "top_categories">>
    ELSE IF col_type = "date" THEN <<"linechart">>
    ELSE <<>>

(* the place of a chart kind in a plan, 0 when it is not planned *)
PlaceIn(options, graph_type) ==
    IF \E i \in 1..Len(options) : options[i] = graph_type
    THEN CHOOSE i \in 1..Len(options) : options[i] = graph_type
    ELSE 0

(* C22: the plan of a column is the fixed list of its semantic type; text,
   identifier and constant columns have no chart; the charts are drawn in the
   order of the list, and the artifacts, one per chart that was drawn, keep
   that order. *)
C22_PlanFixedByType ==
    /\ (bcall.pc \in {"planned", "plotted"}) =>
          /\ bcall.options = ChartsOf(bcall.col_type, bcall.has_time_index)
          /\ (bcall.col_type \in {"text", "identifier", "constant"}) => (bcall.options = <<>>)
    /\ (bcall.pc = "plotted") =>
          /\ Len(bcall.plots) + Len(bcall.errors) = Len(bcall.options)
          /\ \A i \in 1..Len(bcall.plots) : PlaceIn(bcall.options, bcall.plots[i].graph_type) > 0
          /\ \A i, j \in 1..Len(bcall.plots) :
                i < j => PlaceIn(bcall.options, bcall.plots[i].graph_type)
                         < PlaceIn(bcall.options, bcall.plots[j].graph_type)
          /\ \A i, j \in 1..Len(bcall.errors) :
                i < j => PlaceIn(bcall.options, bcall.errors[i].graph_type)
                         < PlaceIn(bcall.options, bcall.errors[j].graph_type)

(* a continuous column of a time-indexed dataset: four charts, all drawn *)
C22_Witness ==
    /\ bcall.pc = "plotted"
    /\ bcall.col_type = "numeric_continuous"
    /\ bcall.has_time_index
    /\ Len(bcall.plots) = 4
    /\ bcall.plots[4].graph_type = "linechart"

(* the rules of infer_column_type in the order of the claim; the last one
   always matches *)
RuleMatches(s) ==
    <<s.non_na = 0 \/ s.unique_count <= 1,
      _is_boolean_series(s),
      _is_datetime_series(dropna(s)),
      _looks_identifier(s, s.unique_count, s.non_na),
      _is_numeric_series(s),
      _is_categorical_text(s, s.unique_count, s.non_na),
      TRUE>>

FirstRule(s) == CHOOSE i \in 1..7 : RuleMatches(s)[i] /\ \A j \in 1..(i - 1) : ~RuleMatches(s)[j]

RuleOf(col_type) ==
    CASE col_type = "constant" -> 1
      [] col_type = "boolean" -> 2
      [] col_type = "date" -> 3
      [] col_type = "identifier" -> 4
      [] col_type \in {"numeric_discrete", "numeric_continuous"} -> 5
      [] col_type = "categorical" -> 6
      [] col_type = "text" -> 7
      [] OTHER -> 0

(* C24: the type of a column is that of the first rule it matches in the order
   constant, boolean, date, identifier, numeric, categorical, text; it is one
   of the eight semantic types, a column with no value or one distinct value
   is constant whatever its storage, and a second classification of the same
   column gives the same type. *)
C24_FirstMatchingRule ==
    (bcall.pc \in {"classified", "reclassified", "planned", "plotted"}) =>
       /\ bcall.col_type \in SemanticTypes
       /\ IsNone(bcall.series) => (bcall.col_type = "constant")
       /\ ~IsNone(bcall.series) =>
             /\ RuleOf(bcall.col_type) = FirstRule(Val(bcall.series))
             /\ (Val(bcall.series).unique_count <= 1) => (bcall.col_type = "constant")
       /\ ~IsNone(bcall.again) => (Val(bcall.again) = bcall.col_type)

(* numbers stored as text that also convert to dates: the date rule wins, both
   times *)
C24_Witness ==
    /\ Classified
    /\ Val(bcall.series).dtype = "object"
    /\ Val(bcall.series).unique_count = 19
    /\ RuleMatches(Val(bcall.series))[3]
    /\ RuleMatches(Val(bcall.series))[5]
    /\ RuleMatches(Val(bcall.series))[6]
    /\ bcall.col_type = "date"
    /\ bcall.again = Some("date")

(* C25: a column that is not of numeric storage and gets to the numeric rule is
   numeric exactly when at least 90% of its non-missing values coerce to a
   number, however many entries are missing; the date rule matches a column
   not of date storage exactly when at least 80% of its non-missing values
   convert to a date. *)
C25_ShareOfNonMissingValues ==
    Classified =>
       LET s == Val(bcall.series)
       IN /\ (s.dtype \notin {"numeric", "bool"} /\ ReachesNumericRule(s)) =>
                ((bcall.col_type \in {"numeric_discrete", "numeric_continuous"})
                    <=> (10 * s.numeric_ok >= 9 * s.non_na))
          /\ (s.dtype # "datetime" /\ s.unique_count >= 2 /\ ~_is_boolean_series(s)) =>
                ((bcall.col_type = "date") <=> (10 * s.datetime_ok >= 8 * s.non_na))

(* the date half of the claim alone *)
C25_DateShareOfNonMissingValues ==
    Classified =>
       LET s == Val(bcall.series)
       IN (s.dtype # "datetime" /\ s.unique_count >= 2 /\ ~_is_boolean_series(s)) =>
             ((bcall.col_type = "date") <=> (10 * s.datetime_ok >= 8 * s.non_na))

(* text column, 20 values of which 19 are numbers, 5 entries missing: 95% of the
   values coerce and the column is not numeric *)
C25_FailingInput ==
    /\ Classified
    /\ Val(bcall.series) = [dtype |-> "object", non_na |-> 20, missing |-> 5,
                            unique_count |-> 2, numeric_ok |-> 19, datetime_ok |-> 0,
                            boolean_values |-> FALSE]
    /\ bcall.col_type = "categorical"

(* the counter the month started from for the two requests *)
CounterAtStart ==
    IF InCurrentMonth(pool.start) THEN pool.start.conversions_this_month ELSE 0

(* fewer conversions are on the row than were granted *)
LostIncrement == committed > 0 /\ db.conversions_this_month < CounterAtStart + committed

(* a free user was granted a conversion beyond the monthly limit *)
GrantedOverLimit ==
    IsFree(pool.start) /\ committed > 0 /\ CounterAtStart + committed > FREE_MONTHLY_LIMIT

(* C23: an increment is lost, or a free user gets more conversions than the
   monthly limit, only when one request of the user loaded the counter while
   another was still between its load and its commit; requests served one
   after the other never get there. *)
C23_RaceOnlyWhenInterleaved == (LostIncrement \/ GrantedOverLimit) => pool.overlapped

(* both requests loaded the counter at 9, both were allowed and committed: the
   row says 10 and the user had 11 conversions this month *)
C23_Witness ==
    /\ pool.overlapped
    /\ IsFree(pool.start) /\ InCurrentMonth(pool.start)
    /\ pool.start.conversions_this_month = FREE_MONTHLY_LIMIT - 1
    /\ \A i \in Requests :
          /\ pool.r[i].pc = "done" /\ pool.r[i].status = 200
          /\ pool.r[i].usage_snapshot.conversions_this_month = FREE_MONTHLY_LIMIT - 1
    /\ committed = 2
    /\ db.conversions_this_month = FREE_MONTHLY_LIMIT
    /\ LostIncrement /\ GrantedOverLimit

(* what identifies a slide or a slide-building call *)
SlideId(x) == [kind |-> x.kind, column |-> x.column, graph_type |-> x.graph_type]

(* the chart slides of a deck *)
GraphSlides(deck) == SelectSeq(deck, LAMBDA d : d.kind = "graph")

(* the place the caller's order gives a column: its index in plots_order, and
   after all of them when it is not named *)
PlaceInOrder(plots_order, column) ==
    IF IsNone(plots_order) THEN 0
    ELSE IF \E k \in 1..Len(Val(plots_order)) : Val(plots_order)[k] = column
    THEN CHOOSE k \in 1..Len(Val(plots_order)) : Val(plots_order)[k] = column
    ELSE Len(Val(plots_order)) + 1

(* the position of a chart in the list the caller handed over *)
PlaceInPlots(plots, slide) ==
    CHOOSE i \in 1..Len(plots) :
       plots[i].column = slide.column /\ plots[i].graph_type = slide.graph_type

NoNameTwice(plots_order) ==
    IsNone(plots_order)
    \/ \A k, l \in 1..Len(Val(plots_order)) : Val(plots_order)[k] = Val(plots_order)[l] => k = l

(* the deck of a build: title first, then the overview when a diagnostic was
   given, then the chart slides by the caller's order and, within one place of
   it, in list order, the conclusion last *)
SlidesInOrder(e) ==
    LET deck == e.summary.deck
        graphs == GraphSlides(deck)
    IN /\ \A i, j \in 1..Len(deck) :
             i < j => /\ deck[j].kind # "title"
                      /\ deck[i].kind # "conclusion"
                      /\ deck[j].kind = "overview" => deck[i].kind = "title"
       /\ (\E i \in 1..Len(deck) : deck[i].kind = "overview") => e.options.diagnostic
       /\ NoNameTwice(e.options.plots_order) =>
             \A i, j \in 1..Len(graphs) :
                i < j =>
                   \/ PlaceInOrder(e.options.plots_order, graphs[i].column)
                         < PlaceInOrder(e.options.plots_order, graphs[j].column)
                   \/ /\ PlaceInOrder(e.options.plots_order, graphs[i].column)
                            = PlaceInOrder(e.options.plots_order, graphs[j].column)
                      /\ PlaceInPlots(e.plots, graphs[i]) < PlaceInPlots(e.plots, graphs[j])

(* the slide-building calls of a build, whatever their order *)
CallsOf(e) == slide_calls(e.plots, e.options.diagnostic)

(* C26: the slides of the deck are in the order title, overview, charts in
   list order or in the caller's order, conclusion; a slide whose building
   raised is not in the deck, is not counted and has one warning, and every
   other slide is in the deck. *)
C26_FailedSlideLeftOut ==
    (ecall.pc = "returned") =>
       LET calls == slide_calls(ordered_plots(ecall.plots, ecall.options), ecall.options.diagnostic)
           deck == ecall.summary.deck
           failed == {i \in 1..Len(calls) : ecall.outcomes[i] # "ok"}
       IN /\ SlidesInOrder(ecall)
          /\ \A i \in 1..Len(calls) :
                (i \in failed) <=> ~(\E k \in 1..Len(deck) : SlideId(deck[k]) = SlideId(calls[i]))
          /\ ecall.summary.slides = Len(calls) - Cardinality(failed)
          /\ Cardinality({k \in 1..Len(ecall.summary.errors) :
                            ecall.summary.errors[k].kind = "slide_failed"}) = Cardinality(failed)

(* the order of the slides and the isolation of failures, without the claim
   that a failed slide is left out *)
C26_OrderAndIsolation ==
    (ecall.pc = "returned") =>
       LET calls == slide_calls(ordered_plots(ecall.plots, ecall.options), ecall.options.diagnostic)
           deck == ecall.summary.deck
           failed == {i \in 1..Len(calls) : ecall.outcomes[i] # "ok"}
       IN /\ SlidesInOrder(ecall)
          /\ \A i \in 1..Len(calls) :
                (i \notin failed) => \E k \in 1..Len(deck) : SlideId(deck[k]) = SlideId(calls[i])
          /\ ecall.summary.slides = Len(deck)
          /\ Cardinality({k \in 1..Len(ecall.summary.errors) :
                            ecall.summary.errors[k].kind = "slide_failed"}) = Cardinality(failed)

(* a chart slide raised after it was added: it is in the deck, unfinished, and
   counted *)
C26_FailingInput ==
    /\ ecall.pc = "returned"
    /\ Len(ecall.plots) = 1 /\ ecall.plots[1].file_exists
    /\ ~ecall.options.diagnostic
    /\ ecall.outcomes = <<"ok", "raise_after_add", "ok">>
    /\ ecall.summary.slides = 3
    /\ ~ecall.summary.deck[2].complete

(* the warnings of a build about the missing image of one chart *)
ImageWarnings(e, plot) ==
    {k \in 1..Len(e.summary.errors) :
        /\ e.summary.errors[k].kind = "image_missing"
        /\ e.summary.errors[k].column = plot.column
        /\ e.summary.errors[k].graph_type = plot.graph_type}

(* C27: a chart whose image file is missing when the deck is built, and whose
   slide is built without an exception, has its slide in the deck with a
   placeholder, exactly one warning naming its column and chart kind, and the
   slide is counted; the build returns its summary. *)
C27_MissingImagePlaceholder ==
    (ecall.pc = "returned") =>
       LET calls == slide_calls(ordered_plots(ecall.plots, ecall.options), ecall.options.diagnostic)
           deck == ecall.summary.deck
       IN /\ ecall.summary.slides = Len(deck)
          /\ \A i \in 1..Len(calls) :
                (calls[i].kind = "graph" /\ ~calls[i].file_exists /\ ecall.outcomes[i] = "ok") =>
                   /\ \E k \in 1..Len(deck) :
                         /\ SlideId(deck[k]) = SlideId(calls[i])
                         /\ deck[k].placeholder /\ deck[k].complete
                   /\ Cardinality(ImageWarnings(ecall, calls[i])) = 1
          /\ \A i \in 1..Len(calls) :
                (calls[i].kind = "graph" /\ calls[i].file_exists) =>
                   /\ ImageWarnings(ecall, calls[i]) = {}
                   /\ \A k \in 1..Len(deck) :
                         SlideId(deck[k]) = SlideId(calls[i]) => ~deck[k].placeholder

(* three charts, the image of the second is missing, nothing raises: the deck
   has the title, three chart slides of which one is a placeholder, and the
   conclusion; the summary has one warning *)
C27_Witness ==
    /\ ecall.pc = "returned"
    /\ Len(ecall.plots) = 3
    /\ ecall.plots[1].file_exists /\ ~ecall.plots[2].file_exists /\ ecall.plots[3].file_exists
    /\ IsNone(ecall.options.plots_order) /\ ~ecall.options.diagnostic
    /\ \A i \in 1..Len(ecall.outcomes) : ecall.outcomes[i] = "ok"
    /\ ecall.summary.slides = 5
    /\ ecall.summary.deck[3].placeholder
    /\ ecall.summary.errors = <<Warning("str", "image_missing", ecall.plots[2].column,
                                        ecall.plots[2].graph_type, 0, 0)>>

(* the text composition has left _generate_texts_with_module_h *)
LeftTextCall(h) == h.pc \in {"generated", "composed", "failed"}

(* C28: once _generate_texts_with_module_h has been left, by a return or by an
   exception, with the collaborator used or not, with an api_key argument or
   not, the OPENAI_API_KEY variable has the value it had before the call, and
   is absent when it was absent. *)
C28_EnvironmentKeyRestored ==
    LeftTextCall(hcall) => (hcall.environ = hcall.environ_before)

(* the key of the request was in the variable during the call, an exception
   ended the call, and the variable is absent again *)
C28_Witness ==
    /\ hcall.pc = "failed"
    /\ hcall.api_key = Some("arg-key")
    /\ hcall.use_ai_texts /\ hcall.ai_calls > 0
    /\ IsNone(hcall.environ_before)
    /\ IsNone(hcall.environ)

(* the user object as the reset step alone leaves it *)
AfterResetOnly(user) ==
    IF IsNone(user.last_reset_date) \/ ~SameMonth(Val(user.last_reset_date), now)
    THEN [user EXCEPT !.conversions_last_month = user.conversions_this_month,
                      !.conversions_this_month = 0,
                      !.last_reset_date = Some(now)]
    ELSE user

(* C29: after a refused check_usage_limits call the counter is the one the
   reset step left, 0 when a reset was due and the value before the call
   otherwise, the params are None, and the user object differs from the one
   before the call by the reset only. *)
C29_DenialNeverIncrements ==
    (jcall.pc = "returned" /\ ~jcall.response.allowed) =>
       /\ jcall.user = AfterResetOnly(jcall.before)
       /\ jcall.user.conversions_this_month =
             (IF IsNone(jcall.before.last_reset_date)
                 \/ ~SameMonth(Val(jcall.before.last_reset_date), now)
              THEN 0 ELSE jcall.before.conversions_this_month)
       /\ IsNone(jcall.response.params)
       /\ ~IsNone(jcall.response.error)

(* a free user of last month is refused for the size of the dataset: the
   counter was reset and not bumped *)
C29_Witness ==
    /\ jcall.pc = "returned" /\ ~jcall.response.allowed
    /\ IsFree(jcall.before)
    /\ ResetDue(jcall.before)
    /\ jcall.before.conversions_this_month > 0
    /\ RowsOf(jcall) > FREE_MAX_ROWS
    /\ jcall.user.conversions_this_month = 0
    /\ jcall.user.conversions_last_month = jcall.before.conversions_this_month

(* the text mode of the run has been chosen *)
ModeChosen(h) == h.pc \in {"selected", "ai", "generated", "composed", "failed"}

(* C30: the run goes for the AI texts exactly when the fallback is not forced
   and a key is in the api_key argument or in the environment, whatever the
   use_ai argument says; without that the collaborator is never called. *)
C30_UseAiArgumentIgnored ==
    ModeChosen(hcall) =>
       LET attempt == /\ ~(hcall.plan_force \/ hcall.options_force)
                      /\ (Truthy(hcall.api_key) \/ Truthy(hcall.environ_before))
       IN /\ hcall.use_ai_texts <=> attempt
          /\ ~attempt => hcall.ai_calls = 0

(* use_ai is False, the key comes with the request: the collaborator was called *)
C30_Witness ==
    /\ hcall.pc = "composed"
    /\ ~hcall.use_ai
    /\ hcall.api_key = Some("arg-key") /\ IsNone(hcall.environ_before)
    /\ hcall.use_ai_texts
    /\ hcall.ai_calls > 0

(* use_ai is True and there is no key: the fallback texts *)
C30_WitnessNoKey ==
    /\ hcall.pc = "composed"
    /\ hcall.use_ai
    /\ ~Truthy(hcall.api_key) /\ IsNone(hcall.environ_before)
    /\ ~hcall.use_ai_texts
    /\ hcall.ai_calls = 0

====
